---- MODULE Spec2Model ----
(***************************************************************************)
(* A model of typingmind-mcp: the tool dispatcher (TypingMindMCPServer),   *)
(* the ad-platform adapter operations it is bound to, the report analyzer, *)
(* the task-tracker adapter, the live-data fetch with its sample fallback, *)
(* the bearer-token middleware and the OAuth access-token provider.        *)
(*                                                                         *)
(* JavaScript values are records [t |-> type, v |-> text]: v is the text   *)
(* a template literal would interpolate, so that string building is string *)
(* concatenation here as it is in the source.                              *)
(***************************************************************************)
EXTENDS Integers, Sequences, FiniteSets, TLC

VARIABLES
    tools,        \* this.tools of the TypingMindMCPServer instance
    mccEnv,       \* process.env.GOOGLE_ADS_LOGIN_CUSTOMER_ID
    pc,           \* position of the current handleToolCall invocation
    toolName,     \* its first argument
    args,         \* its second argument
    sink,         \* the console calls of this invocation that throw
    log,          \* what the console has recorded during this invocation
    adapterCalls, \* adapter operations called during this invocation
    queries,      \* upstream queries issued during this invocation
    pending,      \* the adapter call handleToolCall is awaiting
    answer,       \* what the upstream call of this invocation answered
    adapterResult, \* how the adapter operation called settled
    outcome,      \* how the invocation completed
    analysisNow,  \* new Date() as the analyzer reads it, in days
    report,       \* the reportData passed to analyzeGoogleAdsReport
    apc,          \* whether the report has been analyzed
    analysis,     \* what analyzeGoogleAdsReport returned
    clickupToken, \* process.env.CLICKUP_TOKEN
    trackerNow,   \* new Date() as the task-tracker adapter reads it
    tpc,          \* position of the current task-tracker call
    tcall,        \* the operation called and its argument
    requests,     \* HTTPS requests issued during the call
    responses,    \* how the requests that have ended ended, in order
    results,      \* the results local of searchClickUp
    tresult,      \* how the call completed
    fpc,          \* position of the current fetchLiveGoogleAdsData call
    fcall,        \* its options argument, and whether its console.error throws
    fanswer,      \* what customer.query answered
    fresult,      \* how the call completed
    authToken,    \* the argument authMiddleware was called with
    hpc,          \* whether the handler has handled the current request
    authHeader,   \* req.headers.authorization of the current request
    nextCalls,    \* how many times the handler has called next for it
    reply,        \* what the handler has responded through res, if anything
    oauthEnv,     \* the GOOGLE_* variables getValidAccessToken reads
    opc,          \* position of the current getValidAccessToken call
    warnFails,    \* whether the console.warn of this call throws
    refreshes,    \* refresh requests issued during the call
    refreshAnswer, \* how the refresh request ended
    tokenResult   \* how the call completed

dispVars == <<tools, mccEnv, pc, toolName, args, sink, log, adapterCalls,
              queries, pending, answer, adapterResult, outcome>>

analyzerVars == <<analysisNow, report, apc, analysis>>

trackerVars == <<clickupToken, trackerNow, tpc, tcall, requests, responses,
                 results, tresult>>

fetchVars == <<fpc, fcall, fanswer, fresult>>

authVars == <<authToken, hpc, authHeader, nextCalls, reply>>

oauthVars == <<oauthEnv, opc, warnFails, refreshes, refreshAnswer, tokenResult>>

vars == <<tools, mccEnv, pc, toolName, args, sink, log, adapterCalls,
          queries, pending, answer, adapterResult, outcome,
          analysisNow, report, apc, analysis,
          clickupToken, trackerNow, tpc, tcall, requests, responses,
          results, tresult,
          fpc, fcall, fanswer, fresult,
          authToken, hpc, authHeader, nextCalls, reply,
          oauthEnv, opc, warnFails, refreshes, refreshAnswer, tokenResult>>

----------------------------------------------------------------------------
(* JavaScript values *)

Undef == [t |-> "undefined", v |-> "undefined"]
Null == [t |-> "null", v |-> "null"]
Str(s) == [t |-> "string", v |-> s]
Num(s) == [t |-> "number", v |-> s]
Sym == [t |-> "symbol", v |-> "Symbol()"]

\* a template literal throws TypeError when it interpolates a Symbol
SymbolError == "Cannot convert a Symbol value to a string"

\* ToBoolean on the values above
Truthy(x) ==
    CASE x.t = "undefined" -> FALSE
      [] x.t = "null" -> FALSE
      [] x.t = "string" -> x.v # ""
      [] x.t = "number" -> x.v \notin {"0", "NaN"}
      [] OTHER -> TRUE

\* String.prototype.replace(/-/g, '') on the strings of the model
StripDashes(s) ==
    CASE s = "123-456" -> "123456"
      [] s = "-" -> ""
      [] OTHER -> s

NoProps == [k \in {} |-> Undef]
ArgsUndefined == [t |-> "undefined", props |-> NoProps]
ArgsNull == [t |-> "null", props |-> NoProps]
ArgsString == [t |-> "string", props |-> NoProps]
ArgsNumber == [t |-> "number", props |-> NoProps]
ArgsObject(p) == [t |-> "object", props |-> p]

\* const { key } = args, defined when args is neither undefined nor null
Destructure(a, key) ==
    IF a.t = "object" /\ key \in DOMAIN a.props THEN a.props[key] ELSE Undef

\* const { key = dflt } = args: the default replaces undefined only
DestructureDefault(a, key, dflt) ==
    IF Destructure(a, key) = Undef THEN dflt ELSE Destructure(a, key)

HasKey(a, key) == a.t = "object" /\ key \in DOMAIN a.props

----------------------------------------------------------------------------
(* The registry built by the constructor *)

Descriptor(n, props, req) ==
    [name |-> n, properties |-> props, required |-> req]

ConstructorTools ==
    << Descriptor("list_google_ads_accounts", {}, <<>>),
       Descriptor("get_account_info", {"customerId"}, <<"customerId">>),
       Descriptor("get_ad_spend", {"customerId", "days"}, <<"customerId">>),
       Descriptor("get_keyword_performance", {"customerId", "days"},
                  <<"customerId">>) >>

getTools == tools

RegisteredNames == {tools[i].name : i \in 1..Len(tools)}

RequiredOf(n) ==
    LET i == CHOOSE j \in 1..Len(tools) : tools[j].name = n
    IN {tools[i].required[k] : k \in 1..Len(tools[i].required)}

----------------------------------------------------------------------------
(* The ad-platform adapter operations bound to the tools (lib/googleAds.js) *)

Returned(x) == [kind |-> "return", value |-> x]
Thrown(msg) == [kind |-> "throw", value |-> [message |-> msg]]
NoOutcome == [kind |-> "none", value |-> [message |-> ""]]

\* the error a console call raises when the logging sink fails
SinkError == "logging sink failed"

ResourceNames == {<<"customers", "111">>, <<"customers", "222">>}

\* resourceNames.indexOf(resourceName)
IndexOf(seq, x) ==
    IF \E i \in 1..Len(seq) : seq[i] = x
    THEN (CHOOSE i \in 1..Len(seq) :
            seq[i] = x /\ \A j \in 1..(i - 1) : seq[j] # x) - 1
    ELSE 0 - 1

\* resourceNames.map(...): split('/')[1] is the second component
MapAccounts(resourceNames) ==
    [i \in 1..Len(resourceNames) |->
        [customerId |-> resourceNames[i][2],
         resourceName |-> resourceNames[i],
         isManager |-> IndexOf(resourceNames, resourceNames[i]) = 0]]

AccountsData(list) == [kind |-> "accounts", list |-> list]
NullData == [kind |-> "null"]
CustomerData(row) == [kind |-> "customer", row |-> row]

\* the fallback object of getAdSpend's catch block
SpendFallback(customerId, days) ==
    [kind |-> "spend", source |-> "fallback", customerId |-> customerId,
     period |-> days.v \o " days",
     campaigns |-> <<"123456789", "123456790">>]

\* Amounts of money. The upstream reports integer micros; a number of major
\* units is written [whole, frac], frac in millionths: 1250.5 is
\* [whole |-> 1250, frac |-> 500000].
MicrosPerUnit == 1000000
MicrosPerCent == 10000

\* micros / 1000000
Amount(micros) ==
    [whole |-> micros \div MicrosPerUnit, frac |-> micros % MicrosPerUnit]

Micros(amount) == amount.whole * MicrosPerUnit + amount.frac

\* A deliberately wrong variant: the digits after the second decimal are dropped
ToFixed2_Truncates(micros, divisor) ==
    Amount((micros \div (divisor * MicrosPerCent)) * MicrosPerCent)

\* parseFloat((micros / 1000000 / divisor).toFixed(2)): the quotient rounded
\* to the nearest hundredth
ToFixed2(micros, divisor) ==
    LET cent == divisor * MicrosPerCent
        cents == micros \div cent
        rest == micros - cents * cent
    IN Amount((IF 2 * rest >= cent THEN cents + 1 ELSE cents) * MicrosPerCent)

\* the accumulation of response.forEach: the sum of one metric over the rows
RECURSIVE SumOver(_, _)
SumOver(rows, metric) ==
    IF rows = <<>> THEN 0
    ELSE rows[1][metric] + SumOver(Tail(rows), metric)

SpendLive(customerId, days, rows) ==
    [kind |-> "spend", source |-> "live", customerId |-> customerId,
     period |-> days.v \o " days",
     totalSpend |-> ToFixed2(SumOver(rows, "cost_micros"), 1),
     totalImpressions |-> SumOver(rows, "impressions"),
     totalClicks |-> SumOver(rows, "clicks"),
     totalConversions |-> SumOver(rows, "conversions"),
     averageCpc |-> IF SumOver(rows, "clicks") > 0
                    THEN ToFixed2(SumOver(rows, "cost_micros"),
                                  SumOver(rows, "clicks"))
                    ELSE Amount(0),
     campaigns |-> [i \in 1..Len(rows) |->
                       [id |-> rows[i].id,
                        impressions |-> rows[i].impressions,
                        clicks |-> rows[i].clicks,
                        cost |-> Amount(rows[i].cost_micros),
                        conversions |-> rows[i].conversions]]]

\* the fallback list of getKeywordPerformance's catch block
KeywordFallback ==
    [kind |-> "keywords", source |-> "fallback",
     list |-> <<"construction services", "remodeling contractor">>]

KeywordLive(rows) ==
    [kind |-> "keywords", source |-> "live",
     list |-> [i \in 1..Len(rows) |-> rows[i].id]]

\* what each operation's catch block returns
CatchValue(op, customerId, days) ==
    CASE op = "listAccessibleAccounts" -> AccountsData(<<>>)
      [] op = "getAccountInfo" -> NullData
      [] op = "getAdSpend" -> SpendFallback(customerId, days)
      [] op = "getKeywordPerformance" -> KeywordFallback

\* the operation's catch block: console.error, then the soft result
\* (the object getAdSpend returns there interpolates days once more)
AdapterCatch(op, customerId, days, failing) ==
    IF "adapter" \in failing
    THEN [result |-> Thrown(SinkError), logged |-> <<>>]
    ELSE IF op = "getAdSpend" /\ days.t = "symbol"
         THEN [result |-> Thrown(SymbolError),
               logged |-> <<[stream |-> "error", point |-> "adapter"]>>]
         ELSE [result |-> Returned(CatchValue(op, customerId, days)),
               logged |-> <<[stream |-> "error", point |-> "adapter"]>>]

\* The synchronous start of an operation, up to its first await: TRUE when
\* the upstream call is issued, FALSE when the try block threw before it.
\* (the query text of getAdSpend and getKeywordPerformance interpolates days)
IssuesQuery(op, customerId, days, mcc) ==
    IF op = "listAccessibleAccounts"
    THEN TRUE
    ELSE /\ mcc.t = "string"
         /\ StripDashes(mcc.v) # ""
         /\ customerId.t = "string"
         /\ op = "getAccountInfo" \/ days.t # "symbol"

\* upstream answers
Row(id, wellFormed, cost_micros, impressions, clicks, conversions) ==
    [id |-> id, wellFormed |-> wellFormed, cost_micros |-> cost_micros,
     impressions |-> impressions, clicks |-> clicks,
     conversions |-> conversions]

RowSets == { <<>>,
             << Row("c1", TRUE, 1250500000, 25000, 650, 25) >>,
             << Row("c1", TRUE, 1250500000, 25000, 650, 25),
                Row("c2", TRUE, 1236000, 400, 0, 0) >>,
             << Row("c2", TRUE, 1236000, 400, 0, 0) >>,
             << Row("c2", TRUE, 1236000, 400, 0, 0),
                Row("c3", TRUE, 1000000, 90, 3, 1) >>,
             << Row("c1", FALSE, 0, 0, 0, 0) >> }

Listings == { <<>>,
              << <<"customers", "111">> >>,
              << <<"customers", "111">>, <<"customers", "222">> >>,
              << <<"customers", "222">>, <<"customers", "222">> >> }

QueryAnswers ==
    {[kind |-> "rows", rows |-> r, names |-> <<>>] : r \in RowSets}
    \cup {[kind |-> "failed", rows |-> <<>>, names |-> <<>>]}

ListingAnswers ==
    {[kind |-> "listing", rows |-> <<>>, names |-> n] : n \in Listings}
    \cup {[kind |-> "notArray", rows |-> <<>>, names |-> <<>>],
          [kind |-> "failed", rows |-> <<>>, names |-> <<>>]}

AnswersFor(op) ==
    IF op = "listAccessibleAccounts" THEN ListingAnswers ELSE QueryAnswers

AllWellFormed(rows) == \A i \in 1..Len(rows) : rows[i].wellFormed

\* the rest of the try block once the upstream call has answered:
\* [ok |-> TRUE, value] or [ok |-> FALSE] when it throws into the catch block
AfterAnswer(op, customerId, days, ans) ==
    CASE ans.kind = "failed" -> [ok |-> FALSE, value |-> NullData]
      [] op = "listAccessibleAccounts" ->
            [ok |-> TRUE,
             value |-> AccountsData(MapAccounts(
                 IF ans.kind = "listing" THEN ans.names ELSE <<>>))]
      [] op = "getAccountInfo" ->
            [ok |-> TRUE,
             value |-> IF Len(ans.rows) > 0
                       THEN CustomerData(ans.rows[1]) ELSE NullData]
      [] op = "getAdSpend" ->
            IF AllWellFormed(ans.rows)
            THEN [ok |-> TRUE,
                  value |-> SpendLive(customerId, days, ans.rows)]
            ELSE [ok |-> FALSE, value |-> NullData]
      [] op = "getKeywordPerformance" ->
            IF AllWellFormed(ans.rows)
            THEN [ok |-> TRUE, value |-> KeywordLive(ans.rows)]
            ELSE [ok |-> FALSE, value |-> NullData]

\* how the awaited operation settles, and what its catch block logged
AdapterSettles(op, customerId, days, ans, failing) ==
    LET r == AfterAnswer(op, customerId, days, ans)
    IN IF r.ok
       THEN [result |-> Returned(r.value), logged |-> <<>>]
       ELSE AdapterCatch(op, customerId, days, failing)

----------------------------------------------------------------------------
(* The report analyzer: analyzeGoogleAdsReport (lib/googleAds.js) *)

\* Text the analyzer searches is a sequence of characters.
UpperChars == <<"A", "B", "C", "D", "E", "F", "G", "H", "I", "J", "K", "L",
                "M", "N", "O", "P", "Q", "R", "S", "T", "U", "V", "W", "X",
                "Y", "Z">>
LowerChars == <<"a", "b", "c", "d", "e", "f", "g", "h", "i", "j", "k", "l",
                "m", "n", "o", "p", "q", "r", "s", "t", "u", "v", "w", "x",
                "y", "z">>

\* String.prototype.toLowerCase
ToLowerCase(text) ==
    [i \in 1..Len(text) |->
        IF \E j \in 1..Len(UpperChars) : UpperChars[j] = text[i]
        THEN LowerChars[CHOOSE j \in 1..Len(UpperChars) :
                            UpperChars[j] = text[i]]
        ELSE text[i]]

\* String.prototype.includes
Includes(text, part) ==
    \E i \in 0..(Len(text) - Len(part)) :
        SubSeq(text, i + 1, i + Len(part)) = part

relevantTerms ==
    << <<"b", "u", "i", "l", "d">>,
       <<"r", "e", "n", "o", "v", "a", "t", "i", "o", "n">>,
       <<"e", "x", "t", "e", "n", "s", "i", "o", "n">>,
       <<"c", "o", "n", "s", "t", "r", "u", "c", "t", "i", "o", "n">>,
       <<"r", "e", "m", "o", "d", "e", "l">>,
       <<"h", "o", "m", "e", " ", "i", "m", "p", "r", "o", "v", "e", "m",
         "e", "n", "t">> >>

\* a search term is a string, or an object whose term may be missing
TermString(text) == [isString |-> TRUE, hasTerm |-> FALSE, text |-> text]
TermObject(text) == [isString |-> FALSE, hasTerm |-> TRUE, text |-> text]
TermObjectWithoutTerm ==
    [isString |-> FALSE, hasTerm |-> FALSE, text |-> <<>>]

\* the filter callback of the search-term rule
IsUnrelated(termObj) ==
    LET termStr == IF termObj.isString \/ termObj.hasTerm
                   THEN termObj.text ELSE <<>>
        termLower == ToLowerCase(termStr)
    IN ~\E k \in 1..Len(relevantTerms) : Includes(termLower, relevantTerms[k])

\* Array.prototype.filter(...).length, over the indices the callback keeps
FilterLength(kept) == Cardinality(kept)

ThreeDays == 3
\* 0.02 and 0.01, in ten-thousandths
CtrThreshold == 200
ConversionRateThreshold == 100

\* A deliberately wrong variant: > in place of >=
IsRecentLead_Exclusive(lead, threeDaysAgo) ==
    lead.valid /\ lead.time > threeDaysAgo

\* new Date(lead.date) >= threeDaysAgo; an invalid date compares false
IsRecentLead(lead, threeDaysAgo) == lead.valid /\ lead.time >= threeDaysAgo

\* A deliberately wrong variant: the conversion rate is not looked at
IsLowPerforming_CtrOnly(campaign) ==
    campaign.hasCtr /\ campaign.ctr < CtrThreshold

\* campaign.ctr < 0.02 || campaign.conversionRate < 0.01; a missing field
\* compares false
IsLowPerforming(campaign) ==
    \/ campaign.hasCtr /\ campaign.ctr < CtrThreshold
    \/ campaign.hasConversionRate
       /\ campaign.conversionRate < ConversionRateThreshold

Absent == [present |-> FALSE, list |-> <<>>]
Present(list) == [present |-> TRUE, list |-> list]

\* reportData.x && reportData.x.length > 0
NonEmpty(field) == field.present /\ Len(field.list) > 0

NoLeadData == "No lead data found - check data export"
NoRecentLeads ==
    "No leads generated in the last 3 days - review campaign performance"
LowPerformers == "Suggest new creative for low-performing campaigns"
DefaultRecommendations == <<"Review search terms", "Check ad copy performance">>
UnrelatedTerms(n) ==
    "Found " \o ToString(n)
        \o " potentially unrelated search terms - review for negative keywords"

LeadRule(reportData, now) ==
    LET threeDaysAgo == now - ThreeDays
        leads == reportData.leads.list
        recentLeads == {i \in 1..Len(leads) :
                            IsRecentLead(leads[i], threeDaysAgo)}
    IN IF NonEmpty(reportData.leads)
       THEN IF FilterLength(recentLeads) = 0
            THEN <<NoRecentLeads>> ELSE <<>>
       ELSE <<NoLeadData>>

SearchTermRule(reportData) ==
    IF NonEmpty(reportData.searchTerms)
    THEN LET terms == reportData.searchTerms.list
             unrelatedTerms == {i \in 1..Len(terms) : IsUnrelated(terms[i])}
             n == FilterLength(unrelatedTerms)
         IN IF n > 0 THEN <<UnrelatedTerms(n)>> ELSE <<>>
    ELSE <<>>

CampaignRule(reportData) ==
    IF NonEmpty(reportData.campaigns)
    THEN LET campaigns == reportData.campaigns.list
             lowPerformingCampaigns ==
                 {i \in 1..Len(campaigns) : IsLowPerforming(campaigns[i])}
         IN IF FilterLength(lowPerformingCampaigns) > 0
            THEN <<LowPerformers>> ELSE <<>>
    ELSE <<>>

\* A deliberately wrong variant: the defaults are never added
WithDefaults_Never(recommendations) == recommendations

\* recommendations.length === 0 ? the two defaults
WithDefaults(recommendations) ==
    IF Len(recommendations) = 0
    THEN DefaultRecommendations ELSE recommendations

analyzeGoogleAdsReport(reportData, now) ==
    [recommendations |->
        WithDefaults(LeadRule(reportData, now) \o SearchTermRule(reportData)
                         \o CampaignRule(reportData)),
     analysisDate |-> now,
     dataPoints |->
        [totalLeads |-> Len(reportData.leads.list),
         totalSearchTerms |-> Len(reportData.searchTerms.list),
         totalCampaigns |-> Len(reportData.campaigns.list)]]

----------------------------------------------------------------------------
(* The task-tracker adapter (lib/clickUp.js) *)

\* The clock is [year, day, hour]: day is the number of whole days since
\* 1 January of the year, hour the hour of the day.
IsLeapYear(y) == y % 4 = 0 /\ (y % 100 # 0 \/ y % 400 = 0)
DaysInYear(y) == IF IsLeapYear(y) THEN 366 ELSE 365

HoursPerDay == 24
DaysPerWeek == 7

DigitChars == <<"0", "1", "2", "3", "4", "5", "6", "7", "8", "9">>

\* Number.prototype.toString, for a natural number
RECURSIVE NumberToString(_)
NumberToString(n) ==
    IF n < 10
    THEN <<DigitChars[n + 1]>>
    ELSE NumberToString(n \div 10) \o <<DigitChars[(n % 10) + 1]>>

\* String.prototype.padStart(width, fill), fill a single character
RECURSIVE PadStart(_, _, _)
PadStart(text, width, fill) ==
    IF Len(text) >= width THEN text ELSE PadStart(<<fill>> \o text, width, fill)

\* Math.floor((now - start) / (24 * 60 * 60 * 1000)), start being 1 January
\* 00:00 of now's year; time is counted in hours
DaysSinceNewYear(now) == (now.day * HoursPerDay + now.hour) \div HoursPerDay

\* Math.ceil(days / 7)
WeekNumber(days) == (days + DaysPerWeek - 1) \div DaysPerWeek

PadWidth == 2

getISOWeek(now) ==
    NumberToString(now.year) \o <<"-", "W">>
        \o PadStart(NumberToString(WeekNumber(DaysSinceNewYear(now))),
                    PadWidth, "0")

ISOWeekToken == <<"{", "I", "S", "O", " ", "W", "e", "e", "k", "}">>

\* String.prototype.indexOf: the first position (from 0) or -1
IndexOfText(text, part) ==
    IF Includes(text, part)
    THEN CHOOSE i \in 0..(Len(text) - Len(part)) :
            /\ SubSeq(text, i + 1, i + Len(part)) = part
            /\ \A j \in 0..(i - 1) : SubSeq(text, j + 1, j + Len(part)) # part
    ELSE 0 - 1

\* A deliberately wrong variant: every occurrence is replaced, as replaceAll would
RECURSIVE ReplaceFirst_Every(_, _, _)
ReplaceFirst_Every(text, part, by) ==
    LET i == IndexOfText(text, part)
    IN IF i < 0
       THEN text
       ELSE SubSeq(text, 1, i) \o by
                \o ReplaceFirst_Every(
                       SubSeq(text, i + Len(part) + 1, Len(text)), part, by)

\* String.prototype.replace with a string pattern: the first occurrence only
\* (the replacement holds no $ pattern)
ReplaceFirst(text, part, by) ==
    LET i == IndexOfText(text, part)
    IN IF i < 0
       THEN text
       ELSE SubSeq(text, 1, i) \o by \o SubSeq(text, i + Len(part) + 1, Len(text))

\* taskData.title.includes('{ISO Week}') ? replace : title
FormatTitle(title, now) ==
    IF Includes(title, ISOWeekToken)
    THEN ReplaceFirst(title, ISOWeekToken, getISOWeek(now))
    ELSE title

DefaultPriority == 3
AuditPriority == 2
AuditDueDays == 7

NoText == [present |-> FALSE, text |-> <<>>]
Text(chars) == [present |-> TRUE, text |-> chars]

NoDate == [present |-> FALSE, time |-> [year |-> 0, day |-> 0, hour |-> 0]]
DateAt(t) == [present |-> TRUE, time |-> t]

\* the payload createTask builds from taskData
Payload(taskData, now) ==
    [name |-> FormatTitle(taskData.title.text, now),
     description |-> taskData.description,
     status |-> "to do",
     priority |-> IF taskData.priority # 0
                  THEN taskData.priority ELSE DefaultPriority,
     due_date |-> taskData.dueDate,
     assignees |-> IF Truthy(taskData.assigneeId)
                   THEN <<taskData.assigneeId>> ELSE <<>>,
     tags |-> taskData.tags]

CreateTaskRequest(taskData, token, now) ==
    [method |-> "POST", endpoint |-> "task", id |-> taskData.listId,
     authorization |-> token, body |-> Payload(taskData, now)]

\* createTask up to the request: the two guards
CreateTaskGuard(taskData, token) ==
    IF ~Truthy(token)
    THEN "CLICKUP_TOKEN environment variable is required"
    ELSE IF ~(taskData.title.present /\ taskData.title.text # <<>>)
            \/ ~Truthy(taskData.listId)
         THEN "Task title and listId are required"
         ELSE ""

\* A deliberately wrong variant: 300 counts as a success
IsSuccessStatus_Through300(statusCode) == statusCode >= 200 /\ statusCode <= 300

IsSuccessStatus(statusCode) == statusCode >= 200 /\ statusCode < 300

\* the 'end' and 'error' handlers of createTask's request
CreateTaskSettles(response) ==
    IF response.kind = "error"
    THEN Thrown("Request failed: " \o response.body.err)
    ELSE IF ~response.parseable
         THEN Thrown("Failed to parse response: " \o response.body.err)
         ELSE IF IsSuccessStatus(response.statusCode)
              THEN Returned([success |-> TRUE, task |-> response.body,
                             taskId |-> response.body.id,
                             taskUrl |-> response.body.url,
                             message |-> "Task created successfully"])
              ELSE Returned([success |-> FALSE,
                             error |-> IF response.body.err # ""
                                       THEN response.body.err
                                       ELSE "Failed to create task",
                             statusCode |-> response.statusCode,
                             response |-> response.body])

\* formatAuditDescription: the lines of the description
NumberedLines(recommendations) ==
    [i \in 1..Len(recommendations) |->
        ToString(i) \o ". " \o recommendations[i]]

formatAuditDescription(auditData) ==
    <<"## Google Ads Audit Report",
      "**Analysis Date:** "
          \o (IF Truthy(auditData.analysisDate)
              THEN auditData.analysisDate.v ELSE "now")>>
    \o (IF auditData.hasDataPoints
        THEN <<"### Data Summary", "- Total Leads", "- Total Search Terms",
               "- Total Campaigns">>
        ELSE <<>>)
    \o <<"### Recommendations">>
    \o NumberedLines(auditData.recommendations.list)
    \o <<"---",
         "*Task created automatically by Contractor Scale AI Media Assistant*">>

\* Date.now() + 7 days, on the model's clock (the year's end is not crossed
\* by the inputs of the model)
DueDate(now) == [now EXCEPT !.day = now.day + AuditDueDays]

\* "Ad Audit - Week " (the dash stands for the source's en dash)
AuditTitlePrefix ==
    <<"A", "d", " ", "A", "u", "d", "i", "t", " ", "-", " ", "W", "e", "e",
      "k", " ">>

\* the taskData createAdAuditTask hands to createTask
AuditTaskData(auditData, now) ==
    [title |-> Text(AuditTitlePrefix \o getISOWeek(now)),
     description |-> formatAuditDescription(auditData),
     listId |-> auditData.listId,
     assigneeId |-> auditData.assigneeId,
     tags |-> <<"ad-audit", "automated", "google-ads">>,
     priority |-> AuditPriority,
     dueDate |-> DateAt(DueDate(now))]

\* A deliberately wrong variant: an empty list is not tested for
NothingToAudit_AbsentOnly(auditData) == ~auditData.recommendations.present

\* !auditData.recommendations || auditData.recommendations.length === 0
NothingToAudit(auditData) ==
    ~auditData.recommendations.present
        \/ Len(auditData.recommendations.list) = 0

NoRecommendationsResult ==
    [success |-> FALSE, message |-> "No recommendations to create task for"]

DEFAULT_SPACE_ID == Str("6942940")
DefaultSearchType == Str("all")
DefaultLimit == Num("20")

\* a query holding a lone surrogate (the text stands for the code unit)
LoneSurrogate == "\\uD800"

\* encodeURIComponent on the strings of the model: [ok, text], ok FALSE when
\* it throws URIError
EncodeURIComponent(s) ==
    CASE s = LoneSurrogate -> [ok |-> FALSE, text |-> "URI malformed"]
      [] s = "roof leak" -> [ok |-> TRUE, text |-> "roof%20leak"]
      [] OTHER -> [ok |-> TRUE, text |-> s]

\* function searchClickUp(searchOptions = {}) and its destructuring
SearchOptions(searchOptions) ==
    LET o == IF searchOptions.t = "undefined"
             THEN ArgsObject(NoProps) ELSE searchOptions
    IN [query |-> Destructure(o, "query"),
        spaceId |-> DestructureDefault(o, "spaceId", DEFAULT_SPACE_ID),
        type |-> DestructureDefault(o, "type", DefaultSearchType),
        limit |-> DestructureDefault(o, "limit", DefaultLimit)]

NoResults ==
    [tasks |-> <<>>, docs |-> <<>>, totalResults |-> 0, query |-> Undef,
     spaceId |-> Undef]

\* the results object searchClickUp starts from
InitialResults(opts) ==
    [tasks |-> <<>>, docs |-> <<>>, totalResults |-> 0,
     query |-> opts.query, spaceId |-> opts.spaceId]

\* searchClickUp up to its try block: the guards
SearchGuard(searchOptions, token) ==
    IF ~Truthy(token)
    THEN "CLICKUP_TOKEN environment variable is required"
    ELSE IF searchOptions.t = "null"
         THEN "Cannot destructure property 'query' of 'searchOptions' as it is null."
         ELSE IF ~Truthy(SearchOptions(searchOptions).query)
              THEN "Search query is required"
              ELSE ""

WantsTasks(type) == type = Str("all") \/ type = Str("tasks")
WantsDocs(type) == type = Str("all") \/ type = Str("docs")

\* the request searchTasks ("task") or searchDocs ("doc") builds
SearchRequest(kind, opts, token) ==
    [method |-> "GET", endpoint |-> "space/" \o kind, id |-> opts.spaceId,
     authorization |-> token,
     body |-> [search |-> EncodeURIComponent(opts.query.v).text,
               limit |-> opts.limit.v]]

\* the 'end' and 'error' handlers of searchTasks: the promise resolves with
\* the mapped tasks, or with [] on an error, a status outside 2xx, a body that
\* does not parse, or a body whose tasks cannot be mapped
searchTasksSettles(response) ==
    IF /\ response.kind = "response"
       /\ response.parseable
       /\ IsSuccessStatus(response.statusCode)
       /\ response.body.shape = "list"
    THEN [i \in 1..Len(response.body.items) |->
            [id |-> response.body.items[i], type |-> "task"]]
    ELSE <<>>

\* the same handlers of searchDocs
searchDocsSettles(response) ==
    IF /\ response.kind = "response"
       /\ response.parseable
       /\ IsSuccessStatus(response.statusCode)
       /\ response.body.shape = "list"
    THEN [i \in 1..Len(response.body.items) |->
            [id |-> response.body.items[i], type |-> "doc"]]
    ELSE <<>>

\* results.totalResults = results.tasks.length + results.docs.length
WithTotal(r) == [r EXCEPT !.totalResults = Len(r.tasks) + Len(r.docs)]

SearchSuccess(r) == [success |-> TRUE, results |-> r]
\* the catch block of searchClickUp
SearchFailure(msg, r) == [success |-> FALSE, error |-> msg, results |-> r]

\* the 'end' and 'error' handlers of getLists's request
getListsSettles(response) ==
    IF response.kind = "error"
    THEN Thrown("Request failed: " \o response.body.err)
    ELSE IF ~response.parseable
         THEN Thrown("Failed to parse response: " \o response.body.err)
         ELSE IF IsSuccessStatus(response.statusCode)
              THEN Returned([success |-> TRUE, lists |-> response.body.lists])
              ELSE Returned([success |-> FALSE,
                             error |-> IF response.body.err # ""
                                       THEN response.body.err
                                       ELSE "Failed to fetch lists",
                             lists |-> <<>>])

\* the 'end' and 'error' handlers of getTaskContext's request; reading
\* response.status.status throws inside the try block when the body has no
\* status
getTaskContextSettles(response) ==
    IF response.kind = "error"
    THEN Thrown("Request failed: " \o response.body.err)
    ELSE IF ~response.parseable
         THEN Thrown("Failed to parse response: " \o response.body.err)
         ELSE IF IsSuccessStatus(response.statusCode)
              THEN IF response.body.hasStatus
                   THEN Returned([success |-> TRUE, task |-> response.body,
                                  context |-> [title |-> response.body.name,
                                               status |-> response.body.status]])
                   ELSE Thrown("Failed to parse response: Cannot read properties of undefined (reading 'status')")
              ELSE Returned([success |-> FALSE,
                             error |-> IF response.body.err # ""
                                       THEN response.body.err
                                       ELSE "Failed to fetch task",
                             statusCode |-> response.statusCode])

\* A deliberately wrong variant: the token is not tested
TokenGuard_Never(token) == ""

\* getLists and getTaskContext up to the request: the guard
TokenGuard(token) ==
    IF ~Truthy(token)
    THEN "CLICKUP_TOKEN environment variable is required"
    ELSE ""

GetRequest(endpoint, id, token) ==
    [method |-> "GET", endpoint |-> endpoint, id |-> id,
     authorization |-> token, body |-> [search |-> "", limit |-> ""]]


----------------------------------------------------------------------------
(* TypingMindMCPServer.handleToolCall *)

Success(data, message) ==
    [success |-> TRUE, data |-> data, message |-> message]
Failure(error) == [success |-> FALSE, error |-> error]

DefaultDays == Num("7")

Call(op, customerId, days) ==
    [next |-> "call", op |-> op, customerId |-> customerId, days |-> days,
     error |-> ""]
Throw(msg) ==
    [next |-> "throw", op |-> "", customerId |-> Undef, days |-> Undef,
     error |-> msg]

\* the TypeError of destructuring undefined or null
DestructureError(a) ==
    "Cannot destructure property 'customerId' of 'args' as it is "
        \o a.t \o "."

\* A deliberately wrong variant: the guard tests that the key is present, not that it is truthy
RequireCustomerId_PresenceOnly(a, op, days) ==
    IF a.t \in {"undefined", "null"}
    THEN Throw(DestructureError(a))
    ELSE IF ~HasKey(a, "customerId")
         THEN Throw("customerId is required")
         ELSE Call(op, Destructure(a, "customerId"), days)

\* if (!customerId) throw new Error('customerId is required')
RequireCustomerId(a, op, days) ==
    IF a.t \in {"undefined", "null"}
    THEN Throw(DestructureError(a))
    ELSE IF ~Truthy(Destructure(a, "customerId"))
         THEN Throw("customerId is required")
         ELSE Call(op, Destructure(a, "customerId"), days)

\* A deliberately wrong variant: the switch has no case for get_keyword_performance
Dispatch_WithoutKeywordCase(name, a) ==
    CASE name = "list_google_ads_accounts" ->
            Call("listAccessibleAccounts", Undef, Undef)
      [] name = "get_account_info" ->
            RequireCustomerId(a, "getAccountInfo", Undef)
      [] name = "get_ad_spend" ->
            RequireCustomerId(a, "getAdSpend",
                              DestructureDefault(a, "days", DefaultDays))
      [] OTHER -> Throw("Unknown tool: " \o name)

\* the switch statement, up to the await of the bound operation
Dispatch(name, a) ==
    CASE name = "list_google_ads_accounts" ->
            Call("listAccessibleAccounts", Undef, Undef)
      [] name = "get_account_info" ->
            RequireCustomerId(a, "getAccountInfo", Undef)
      [] name = "get_ad_spend" ->
            RequireCustomerId(a, "getAdSpend",
                              DestructureDefault(a, "days", DefaultDays))
      [] name = "get_keyword_performance" ->
            RequireCustomerId(a, "getKeywordPerformance",
                              DestructureDefault(a, "days", DefaultDays))
      [] OTHER -> Throw("Unknown tool: " \o name)

\* the message of the success envelope
SuccessMessage(op, customerId, days, data) ==
    CASE op = "listAccessibleAccounts" ->
            "Found " \o ToString(Len(data.list)) \o " accessible accounts"
      [] op = "getAccountInfo" ->
            "Account info retrieved for " \o customerId.v
      [] op = "getAdSpend" ->
            "Ad spend data retrieved for " \o customerId.v
                \o " (" \o days.v \o " days)"
      [] op = "getKeywordPerformance" ->
            "Keyword performance data retrieved for " \o customerId.v
                \o " (" \o days.v \o " days)"

\* the catch block: console.error, then the failure envelope
CatchBlock(msg, failing) ==
    IF "outcome" \in failing
    THEN [result |-> Thrown(SinkError), logged |-> <<>>]
    ELSE [result |-> Returned(Failure(msg)),
          logged |-> <<[stream |-> "error", point |-> "outcome"]>>]

\* the continuation after the await: wrap the value, or catch the rejection
\* (the message interpolates customerId and, for two tools, days)
AfterAwait(p, settled, failing) ==
    IF settled.kind = "return"
    THEN IF p.customerId.t = "symbol" \/ p.days.t = "symbol"
         THEN CatchBlock(SymbolError, failing)
         ELSE [result |-> Returned(Success(settled.value,
                             SuccessMessage(p.op, p.customerId, p.days,
                                            settled.value))),
               logged |-> <<>>]
    ELSE CatchBlock(settled.value.message, failing)

NoPending ==
    [op |-> "", customerId |-> Undef, days |-> Undef, inFlight |-> FALSE]

NoAnswer == [kind |-> "none", rows |-> <<>>, names |-> <<>>]

\* handleToolCall(name, a) up to its await, or to its end when it has none
HandleToolCall(name, a, failing) ==
    /\ pc = "idle"
    /\ toolName' = name
    /\ args' = a
    /\ sink' = failing
    /\ answer' = NoAnswer
    /\ adapterResult' = NoOutcome
    /\ IF "entry" \in failing
       THEN /\ log' = <<>>
            /\ adapterCalls' = <<>>
            /\ queries' = 0
            /\ pending' = NoPending
            /\ outcome' = Thrown(SinkError)
            /\ pc' = "done"
       ELSE LET entry == <<[stream |-> "log", point |-> "entry"]>>
                d == Dispatch(name, a)
            IN IF d.next = "throw"
               THEN LET c == CatchBlock(d.error, failing)
                    IN /\ log' = entry \o c.logged
                       /\ adapterCalls' = <<>>
                       /\ queries' = 0
                       /\ pending' = NoPending
                       /\ outcome' = c.result
                       /\ pc' = "done"
               ELSE LET q == IssuesQuery(d.op, d.customerId, d.days, mccEnv)
                    IN /\ log' = entry
                       /\ adapterCalls' = <<d.op>>
                       /\ queries' = IF q THEN 1 ELSE 0
                       /\ pending' = [op |-> d.op,
                                      customerId |-> d.customerId,
                                      days |-> d.days, inFlight |-> q]
                       /\ outcome' = NoOutcome
                       /\ pc' = "awaiting"
    /\ UNCHANGED <<tools, mccEnv>>
    /\ UNCHANGED <<analyzerVars, trackerVars, fetchVars, authVars, oauthVars>>

\* the awaited operation settles and handleToolCall runs to its end
Settle(ans) ==
    /\ pc = "awaiting"
    /\ LET a == IF pending.inFlight
                THEN AdapterSettles(pending.op, pending.customerId,
                                    pending.days, ans, sink)
                ELSE AdapterCatch(pending.op, pending.customerId,
                                  pending.days, sink)
           h == AfterAwait(pending, a.result, sink)
       IN /\ log' = log \o a.logged \o h.logged
          /\ adapterResult' = a.result
          /\ outcome' = h.result
    /\ answer' = ans
    /\ pc' = "done"
    /\ pending' = NoPending
    /\ UNCHANGED <<tools, mccEnv, toolName, args, sink, adapterCalls,
                   queries>>
    /\ UNCHANGED <<analyzerVars, trackerVars, fetchVars, authVars, oauthVars>>

\* the upstream call answers
UpstreamAnswers ==
    /\ pc = "awaiting" /\ pending.inFlight
    /\ \E ans \in AnswersFor(pending.op) : Settle(ans)

\* the operation's try block threw before any upstream call
AdapterFailsEarly ==
    /\ pc = "awaiting" /\ ~pending.inFlight
    /\ Settle(NoAnswer)

\* the caller takes the result; the server is ready for the next call
\* (the invocation's locals and its record are dropped)
CallerReceives ==
    /\ pc = "done"
    /\ pc' = "idle"
    /\ toolName' = ""
    /\ args' = ArgsUndefined
    /\ sink' = {}
    /\ log' = <<>>
    /\ adapterCalls' = <<>>
    /\ queries' = 0
    /\ pending' = NoPending
    /\ answer' = NoAnswer
    /\ adapterResult' = NoOutcome
    /\ outcome' = NoOutcome
    /\ UNCHANGED <<tools, mccEnv>>
    /\ UNCHANGED <<analyzerVars, trackerVars, fetchVars, authVars, oauthVars>>

----------------------------------------------------------------------------
(* Calls of the analyzer *)

NoAnalysis ==
    [recommendations |-> <<>>, analysisDate |-> 0,
     dataPoints |-> [totalLeads |-> 0, totalSearchTerms |-> 0,
                     totalCampaigns |-> 0]]

\* analyzeGoogleAdsReport(report) is called and returns
Analyze ==
    /\ apc = "ready"
    /\ analysis' = analyzeGoogleAdsReport(report, analysisNow)
    /\ apc' = "analyzed"
    /\ UNCHANGED <<analysisNow, report>>
    /\ UNCHANGED <<dispVars, trackerVars, fetchVars, authVars, oauthVars>>

----------------------------------------------------------------------------
(* Calls of the task-tracker adapter *)

NoTaskData ==
    [title |-> NoText, description |-> <<>>, listId |-> Undef,
     assigneeId |-> Undef, tags |-> <<>>, priority |-> 0,
     dueDate |-> NoDate]

NoAuditData ==
    [recommendations |-> Absent, listId |-> Undef, assigneeId |-> Undef,
     hasDataPoints |-> FALSE, analysisDate |-> Undef]

NoCall ==
    [op |-> "", taskData |-> NoTaskData, auditData |-> NoAuditData,
     searchOptions |-> ArgsUndefined, id |-> Undef]

\* createTask(taskData), from either caller, up to its request
StartCreateTask(taskData) ==
    LET refused == CreateTaskGuard(taskData, clickupToken)
    IN IF refused # ""
       THEN /\ requests' = <<>>
            /\ tresult' = Thrown(refused)
            /\ tpc' = "done"
       ELSE /\ requests' =
                <<CreateTaskRequest(taskData, clickupToken, trackerNow)>>
            /\ tresult' = NoOutcome
            /\ tpc' = "awaiting"

CreateTask(taskData) ==
    /\ tpc = "idle"
    /\ tcall' = [NoCall EXCEPT !.op = "createTask", !.taskData = taskData]
    /\ StartCreateTask(taskData)
    /\ UNCHANGED <<clickupToken, trackerNow, responses, results>>
    /\ UNCHANGED <<dispVars, analyzerVars, fetchVars, authVars, oauthVars>>

CreateAdAuditTask(auditData) ==
    /\ tpc = "idle"
    /\ tcall' = [NoCall EXCEPT !.op = "createAdAuditTask",
                               !.auditData = auditData]
    /\ IF NothingToAudit(auditData)
       THEN /\ requests' = <<>>
            /\ tresult' = Returned(NoRecommendationsResult)
            /\ tpc' = "done"
       ELSE StartCreateTask(AuditTaskData(auditData, trackerNow))
    /\ UNCHANGED <<clickupToken, trackerNow, responses, results>>
    /\ UNCHANGED <<dispVars, analyzerVars, fetchVars, authVars, oauthVars>>

\* the exported getISOWeek()
GetISOWeek ==
    /\ tpc = "idle"
    /\ tcall' = [NoCall EXCEPT !.op = "getISOWeek"]
    /\ requests' = <<>>
    /\ tresult' = Returned(getISOWeek(trackerNow))
    /\ tpc' = "done"
    /\ UNCHANGED <<clickupToken, trackerNow, responses, results>>
    /\ UNCHANGED <<dispVars, analyzerVars, fetchVars, authVars, oauthVars>>

\* the request of createTask ends, with a response or an error
CreateTaskResponse(response) ==
    /\ tpc = "awaiting"
    /\ tresult' = CreateTaskSettles(response)
    /\ responses' = Append(responses, response)
    /\ tpc' = "done"
    /\ UNCHANGED <<clickupToken, trackerNow, tcall, requests, results>>
    /\ UNCHANGED <<dispVars, analyzerVars, fetchVars, authVars, oauthVars>>

\* the call throws before its first request
Refuses(msg) ==
    /\ requests' = <<>>
    /\ results' = NoResults
    /\ tresult' = Thrown(msg)
    /\ tpc' = "done"

\* the end of searchClickUp's try block: the total and the success envelope
FinishSearch(r, sent) ==
    /\ requests' = sent
    /\ results' = WithTotal(r)
    /\ tresult' = Returned(SearchSuccess(WithTotal(r)))
    /\ tpc' = "done"

\* a sub-call of searchClickUp is called and awaited: its request is issued,
\* or its Promise executor throws while building the path and the catch block
\* of searchClickUp returns
CallSubSearch(kind, opts, r, sent) ==
    IF EncodeURIComponent(opts.query.v).ok
    THEN /\ requests' = Append(sent, SearchRequest(kind, opts, clickupToken))
         /\ results' = r
         /\ tresult' = NoOutcome
         /\ tpc' = IF kind = "task" THEN "searchingTasks" ELSE "searchingDocs"
    ELSE /\ requests' = sent
         /\ results' = r
         /\ tresult' = Returned(SearchFailure(
                           EncodeURIComponent(opts.query.v).text, r))
         /\ tpc' = "done"

\* A deliberately wrong variant: an empty task list ends the search
SearchDocsStep_StopsOnEmpty(opts, r, sent) ==
    IF WantsDocs(opts.type) /\ (r.tasks # <<>> \/ sent = <<>>)
    THEN CallSubSearch("doc", opts, r, sent)
    ELSE FinishSearch(r, sent)

\* A deliberately wrong variant: the docs request is issued and not awaited
SearchDocsStep_NotAwaited(opts, r, sent) ==
    IF WantsDocs(opts.type) /\ EncodeURIComponent(opts.query.v).ok
    THEN FinishSearch(r, Append(sent, SearchRequest("doc", opts, clickupToken)))
    ELSE FinishSearch(r, sent)

\* if (type === 'all' || type === 'docs') await searchDocs(...), then the end
\* of the try block
SearchDocsStep(opts, r, sent) ==
    IF WantsDocs(opts.type)
    THEN CallSubSearch("doc", opts, r, sent)
    ELSE FinishSearch(r, sent)

\* searchClickUp(searchOptions) up to its first await, or to its end
SearchClickUp(searchOptions) ==
    /\ tpc = "idle"
    /\ tcall' = [NoCall EXCEPT !.op = "searchClickUp",
                               !.searchOptions = searchOptions]
    /\ LET refused == SearchGuard(searchOptions, clickupToken)
           opts == SearchOptions(searchOptions)
       IN IF refused # ""
          THEN Refuses(refused)
          ELSE IF WantsTasks(opts.type)
               THEN CallSubSearch("task", opts, InitialResults(opts), <<>>)
               ELSE SearchDocsStep(opts, InitialResults(opts), <<>>)
    /\ UNCHANGED <<clickupToken, trackerNow, responses>>
    /\ UNCHANGED <<dispVars, analyzerVars, fetchVars, authVars, oauthVars>>

\* the request of searchTasks ends and searchClickUp goes on to the docs
SearchTasksResponse(response) ==
    /\ tpc = "searchingTasks"
    /\ responses' = Append(responses, response)
    /\ SearchDocsStep(SearchOptions(tcall.searchOptions),
                      [results EXCEPT !.tasks = searchTasksSettles(response)],
                      requests)
    /\ UNCHANGED <<clickupToken, trackerNow, tcall>>
    /\ UNCHANGED <<dispVars, analyzerVars, fetchVars, authVars, oauthVars>>

\* the request of searchDocs ends and searchClickUp runs to its end
SearchDocsResponse(response) ==
    /\ tpc = "searchingDocs"
    /\ responses' = Append(responses, response)
    /\ FinishSearch([results EXCEPT !.docs = searchDocsSettles(response)],
                    requests)
    /\ UNCHANGED <<clickupToken, trackerNow, tcall>>
    /\ UNCHANGED <<dispVars, analyzerVars, fetchVars, authVars, oauthVars>>

\* getLists(spaceId = DEFAULT_SPACE_ID) up to its request
GetLists(spaceId) ==
    /\ tpc = "idle"
    /\ tcall' = [NoCall EXCEPT !.op = "getLists", !.id = spaceId]
    /\ IF TokenGuard(clickupToken) # ""
       THEN Refuses(TokenGuard(clickupToken))
       ELSE /\ requests' =
                <<GetRequest("space/list",
                             IF spaceId = Undef THEN DEFAULT_SPACE_ID
                             ELSE spaceId,
                             clickupToken)>>
            /\ results' = NoResults
            /\ tresult' = NoOutcome
            /\ tpc' = "fetchingLists"
    /\ UNCHANGED <<clickupToken, trackerNow, responses>>
    /\ UNCHANGED <<dispVars, analyzerVars, fetchVars, authVars, oauthVars>>

GetListsResponse(response) ==
    /\ tpc = "fetchingLists"
    /\ responses' = Append(responses, response)
    /\ tresult' = getListsSettles(response)
    /\ tpc' = "done"
    /\ UNCHANGED <<clickupToken, trackerNow, tcall, requests, results>>
    /\ UNCHANGED <<dispVars, analyzerVars, fetchVars, authVars, oauthVars>>

\* getTaskContext(taskId) up to its request
GetTaskContext(taskId) ==
    /\ tpc = "idle"
    /\ tcall' = [NoCall EXCEPT !.op = "getTaskContext", !.id = taskId]
    /\ IF TokenGuard(clickupToken) # ""
       THEN Refuses(TokenGuard(clickupToken))
       ELSE /\ requests' = <<GetRequest("task", taskId, clickupToken)>>
            /\ results' = NoResults
            /\ tresult' = NoOutcome
            /\ tpc' = "fetchingTask"
    /\ UNCHANGED <<clickupToken, trackerNow, responses>>
    /\ UNCHANGED <<dispVars, analyzerVars, fetchVars, authVars, oauthVars>>

GetTaskContextResponse(response) ==
    /\ tpc = "fetchingTask"
    /\ responses' = Append(responses, response)
    /\ tresult' = getTaskContextSettles(response)
    /\ tpc' = "done"
    /\ UNCHANGED <<clickupToken, trackerNow, tcall, requests, results>>
    /\ UNCHANGED <<dispVars, analyzerVars, fetchVars, authVars, oauthVars>>

\* the caller takes the result
TrackerCallReturns ==
    /\ tpc = "done"
    /\ tpc' = "idle"
    /\ tcall' = NoCall
    /\ requests' = <<>>
    /\ responses' = <<>>
    /\ results' = NoResults
    /\ tresult' = NoOutcome
    /\ UNCHANGED <<clickupToken, trackerNow>>
    /\ UNCHANGED <<dispVars, analyzerVars, fetchVars, authVars, oauthVars>>


----------------------------------------------------------------------------
(* fetchLiveGoogleAdsData, processLiveData, generateDummyData              *)
(* (lib/googleAds.js). A dataset is described by its top-level keys, the   *)
(* key of its collection, the field names of a row and the number of rows. *)

DefaultTimeRange == Str("LAST_7_DAYS")
DefaultQueryType == Str("campaigns")

\* the keys of the queries object
QueryTypes == {"campaigns", "keywords", "search_terms", "ads"}

\* function fetchLiveGoogleAdsData(options = {}) and its destructuring
FetchOptions(options) ==
    LET o == IF options.t = "undefined" THEN ArgsObject(NoProps) ELSE options
    IN [customerId |-> Destructure(o, "customerId"),
        timeRange |-> DestructureDefault(o, "timeRange", DefaultTimeRange),
        queryType |-> DestructureDefault(o, "queryType", DefaultQueryType)]

Dataset(source, keys, collection, rowFields, rows) ==
    [source |-> source, keys |-> keys, collection |-> collection,
     rowFields |-> rowFields, rows |-> rows]

\* the switch of generateDummyData
generateDummyData(queryType) ==
    CASE queryType = Str("campaigns") ->
            Dataset("sample", {"campaigns", "analysisDate"}, "campaigns",
                    {"name", "status", "clicks", "impressions", "conversions",
                     "cost", "ctr", "averageCpc"}, 2)
      [] queryType = Str("keywords") ->
            Dataset("sample", {"keywords", "analysisDate"}, "keywords",
                    {"text", "clicks", "impressions", "conversions", "cost",
                     "ctr", "averageCpc", "matchType"}, 2)
      [] queryType = Str("search_terms") ->
            Dataset("sample", {"searchTerms", "analysisDate"}, "searchTerms",
                    {"term", "clicks", "impressions", "conversions", "cost",
                     "ctr"}, 2)
      [] OTHER ->
            Dataset("sample", {"data", "analysisDate"}, "data", {}, 0)

\* the key and the row fields of each case of processLiveData's switch
LiveCollection(queryType) ==
    CASE queryType = Str("campaigns") -> "campaigns"
      [] queryType = Str("keywords") -> "keywords"
      [] queryType = Str("search_terms") -> "searchTerms"
      [] queryType = Str("ads") -> "ads"

LiveRowFields(queryType) ==
    CASE queryType = Str("campaigns") ->
            {"id", "name", "status", "channelType", "clicks", "impressions",
             "conversions", "cost", "ctr", "avgCpc"}
      [] queryType = Str("keywords") ->
            {"text", "matchType", "clicks", "impressions", "conversions",
             "cost", "ctr", "avgCpc"}
      [] queryType = Str("search_terms") ->
            {"term", "clicks", "impressions", "conversions", "cost", "ctr"}
      [] queryType = Str("ads") ->
            {"id", "name", "headlines", "descriptions", "clicks",
             "impressions", "conversions", "ctr"}

\* processLiveData(rawData, queryType), for rawData whose rows are objects:
\* the sample when rawData is not a non-empty array, the mapped rows for the
\* four query types, rawData itself for any other type
processLiveData(rawData, queryType) ==
    IF rawData.kind # "rows" \/ rawData.count = 0
    THEN generateDummyData(queryType)
    ELSE IF queryType.t = "string" /\ queryType.v \in QueryTypes
         THEN Dataset("live", {LiveCollection(queryType)},
                      LiveCollection(queryType), LiveRowFields(queryType),
                      rawData.count)
         ELSE Dataset("raw", {}, "", {}, rawData.count)

\* fetchLiveGoogleAdsData up to its try block
FetchGuard(options) ==
    IF options.t = "null"
    THEN "Cannot destructure property 'customerId' of 'options' as it is null."
    ELSE IF ~Truthy(FetchOptions(options).customerId)
         THEN "Google Ads customer ID is required for live data"
         ELSE ""

\* the try block throws: the query was rejected (executeGAQLQuery logs and
\* rethrows) or a row of the answer is null
FetchTryThrows(rawData) == rawData.kind \in {"failed", "nullRow"}

\* the rest of fetchLiveGoogleAdsData once the query has answered; the catch
\* block logs the error before it returns the sample
FetchSettles(rawData, queryType, sinkFails) ==
    IF FetchTryThrows(rawData)
    THEN IF sinkFails
         THEN Thrown(SinkError)
         ELSE Returned(generateDummyData(queryType))
    ELSE Returned(processLiveData(rawData, queryType))

NoFetch == [options |-> ArgsUndefined, sinkFails |-> FALSE]
NoRawData == [kind |-> "none", count |-> 0]
NoDataset == Dataset("none", {}, "", {}, 0)

FetchLiveGoogleAdsData(options, sinkFails) ==
    /\ fpc = "idle"
    /\ fcall' = [options |-> options, sinkFails |-> sinkFails]
    /\ fanswer' = NoRawData
    /\ IF FetchGuard(options) # ""
       THEN /\ fresult' = Thrown(FetchGuard(options))
            /\ fpc' = "done"
       ELSE /\ fresult' = NoOutcome
            /\ fpc' = "awaiting"
    /\ UNCHANGED <<dispVars, analyzerVars, trackerVars, authVars, oauthVars>>

\* customer.query answers or rejects, and the call runs to its end
FetchAnswers(rawData) ==
    /\ fpc = "awaiting"
    /\ fanswer' = rawData
    /\ fresult' = FetchSettles(rawData, FetchOptions(fcall.options).queryType,
                               fcall.sinkFails)
    /\ fpc' = "done"
    /\ UNCHANGED fcall
    /\ UNCHANGED <<dispVars, analyzerVars, trackerVars, authVars, oauthVars>>

FetchReturns ==
    /\ fpc = "done"
    /\ fpc' = "idle"
    /\ fcall' = NoFetch
    /\ fanswer' = NoRawData
    /\ fresult' = NoOutcome
    /\ UNCHANGED <<dispVars, analyzerVars, trackerVars, authVars, oauthVars>>


----------------------------------------------------------------------------
(* authMiddleware (lib/auth.js). The header and the configured token are   *)
(* NoText (undefined) or Text(characters).                                 *)

Bearer == <<"B", "e", "a", "r", "e", "r">>

\* the position of the first separator in chars, 0 when there is none
FirstSeparator(chars, sep) ==
    IF \E i \in 1..Len(chars) : chars[i] = sep
    THEN CHOOSE i \in 1..Len(chars) :
            chars[i] = sep /\ \A j \in 1..(i - 1) : chars[j] # sep
    ELSE 0

\* String.prototype.split(sep) for a one-character separator
RECURSIVE Split(_, _)
Split(chars, sep) ==
    LET i == FirstSeparator(chars, sep)
    IN IF i = 0
       THEN <<chars>>
       ELSE <<SubSeq(chars, 1, i - 1)>>
                \o Split(SubSeq(chars, i + 1, Len(chars)), sep)

\* const [type, token] = authHeader.split(' ')
HeaderType(header) == Text(Split(header.text, " ")[1])
HeaderToken(header) ==
    LET parts == Split(header.text, " ")
    IN IF Len(parts) >= 2 THEN Text(parts[2]) ELSE NoText

Unauthorized(error) ==
    [next |-> 0, response |-> [status |-> 401, error |-> error]]
NoResponse == [status |-> 0, error |-> ""]
CallsNext == [next |-> 1, response |-> NoResponse]

\* A deliberately wrong variant: the scheme is not compared with 'Bearer'
AuthDecision_AnyScheme(header, configured) ==
    IF ~header.present \/ header.text = <<>>
    THEN Unauthorized("Authorization header is required")
    ELSE IF HeaderToken(header) # configured
         THEN Unauthorized("Invalid authentication token")
         ELSE CallsNext

\* the body of the handler
AuthDecision(header, configured) ==
    IF ~header.present \/ header.text = <<>>
    THEN Unauthorized("Authorization header is required")
    ELSE IF HeaderType(header) # Text(Bearer)
         THEN Unauthorized("Authorization type must be Bearer")
         ELSE IF HeaderToken(header) # configured
              THEN Unauthorized("Invalid authentication token")
              ELSE CallsNext

\* the handler runs on a request
Handler(header) ==
    /\ hpc = "idle"
    /\ authHeader' = header
    /\ nextCalls' = AuthDecision(header, authToken).next
    /\ reply' = AuthDecision(header, authToken).response
    /\ hpc' = "done"
    /\ UNCHANGED authToken
    /\ UNCHANGED <<dispVars, analyzerVars, trackerVars, fetchVars, oauthVars>>

\* the request is over; the handler is ready for the next one
RequestEnds ==
    /\ hpc = "done"
    /\ hpc' = "idle"
    /\ authHeader' = NoText
    /\ nextCalls' = 0
    /\ reply' = NoResponse
    /\ UNCHANGED authToken
    /\ UNCHANGED <<dispVars, analyzerVars, trackerVars, fetchVars, oauthVars>>


----------------------------------------------------------------------------
(* refreshAccessToken and getValidAccessToken (lib/auth.js) *)

Env(clientId, clientSecret, refreshToken, accessToken) ==
    [GOOGLE_CLIENT_ID |-> clientId, GOOGLE_CLIENT_SECRET |-> clientSecret,
     GOOGLE_REFRESH_TOKEN |-> refreshToken,
     GOOGLE_OAUTH_ACCESS_TOKEN |-> accessToken]

NoEnv == Env(Undef, Undef, Undef, Undef)

\* how the request to the token endpoint ended: a transport error, or a body
\* (of whatever status), which parses or not; parsed is what JSON.parse gave
RefreshAnswer(kind, error, access_token) ==
    [kind |-> kind, error |-> error, access_token |-> access_token]

NoRefreshAnswer == RefreshAnswer("none", Undef, Undef)

\* the promise of refreshAccessToken resolves (with the parsed body): the
\* body parsed to an object whose error member is falsy
RefreshResolves(ans) == ans.kind = "object" /\ ~Truthy(ans.error)

\* the message refreshAccessToken rejects with
RefreshRejection(ans) ==
    CASE ans.kind = "transportError" -> "Token refresh failed: "
      [] ans.kind = "object" -> "Token refresh error: " \o ans.error.v
      [] OTHER -> "Failed to parse refresh response: "

CredentialsMissing(env) ==
    ~Truthy(env.GOOGLE_CLIENT_ID) \/ ~Truthy(env.GOOGLE_CLIENT_SECRET)

\* getValidAccessToken after its if (refreshToken) statement
ConfiguredToken(env) ==
    IF Truthy(env.GOOGLE_OAUTH_ACCESS_TOKEN)
    THEN Returned(env.GOOGLE_OAUTH_ACCESS_TOKEN)
    ELSE Thrown("No valid access token available. "
                    \o "Please complete OAuth flow first.")

\* the try statement once the refresh request has ended: return
\* response.access_token, or catch, warn and go on
AfterRefresh(env, ans, failing) ==
    IF RefreshResolves(ans)
    THEN Returned(ans.access_token)
    ELSE IF failing THEN Thrown(SinkError) ELSE ConfiguredToken(env)

\* getValidAccessToken() up to its await, or to its end when it has none
GetValidAccessToken(failing) ==
    /\ opc = "idle"
    /\ warnFails' = failing
    /\ refreshAnswer' = NoRefreshAnswer
    /\ IF CredentialsMissing(oauthEnv)
       THEN /\ tokenResult' =
                  Thrown("Google OAuth credentials not configured")
            /\ refreshes' = 0
            /\ opc' = "done"
       ELSE IF Truthy(oauthEnv.GOOGLE_REFRESH_TOKEN)
            THEN /\ tokenResult' = NoOutcome
                 /\ refreshes' = 1
                 /\ opc' = "refreshing"
            ELSE /\ tokenResult' = ConfiguredToken(oauthEnv)
                 /\ refreshes' = 0
                 /\ opc' = "done"
    /\ UNCHANGED oauthEnv
    /\ UNCHANGED <<dispVars, analyzerVars, trackerVars, fetchVars, authVars>>

\* the refresh request ends, and the call runs to its end
RefreshEnds(ans) ==
    /\ opc = "refreshing"
    /\ refreshAnswer' = ans
    /\ tokenResult' = AfterRefresh(oauthEnv, ans, warnFails)
    /\ opc' = "done"
    /\ UNCHANGED <<oauthEnv, warnFails, refreshes>>
    /\ UNCHANGED <<dispVars, analyzerVars, trackerVars, fetchVars, authVars>>

TokenCallReturns ==
    /\ opc = "done"
    /\ opc' = "idle"
    /\ warnFails' = FALSE
    /\ refreshes' = 0
    /\ refreshAnswer' = NoRefreshAnswer
    /\ tokenResult' = NoOutcome
    /\ UNCHANGED oauthEnv
    /\ UNCHANGED <<dispVars, analyzerVars, trackerVars, fetchVars, authVars>>

----------------------------------------------------------------------------
(* Inputs *)

ToolNameInputs ==
    {"list_google_ads_accounts", "get_account_info", "get_ad_spend",
     "get_keyword_performance", "unknown_tool", "getAdSpend"}

CustomerIdInputs ==
    {Undef, Null, Str(""), Str("123456"), Str("123-456"), Num("0"),
     Num("42")}

DaysInputs == {Undef, Null, Num("30"), Sym}

PropsInputs ==
    UNION { {[k \in ks |-> IF k = "customerId" THEN c ELSE d] :
                c \in CustomerIdInputs, d \in DaysInputs} :
            ks \in SUBSET {"customerId", "days"} }

ArgsInputs ==
    {ArgsUndefined, ArgsNull, ArgsString, ArgsNumber}
    \cup {ArgsObject(p) : p \in PropsInputs}

LogPoints == {"entry", "adapter", "outcome"}

MccInputs == {Undef, Str(""), Str("-"), Str("123-456")}

Invoke ==
    \E name \in ToolNameInputs, a \in ArgsInputs, failing \in SUBSET LogPoints :
        HandleToolCall(name, a, failing)

DispatcherInit ==
    /\ tools = ConstructorTools
    /\ mccEnv \in MccInputs
    /\ pc = "idle"
    /\ toolName = ""
    /\ args = ArgsUndefined
    /\ sink = {}
    /\ log = <<>>
    /\ adapterCalls = <<>>
    /\ queries = 0
    /\ pending = NoPending
    /\ answer = NoAnswer
    /\ adapterResult = NoOutcome
    /\ outcome = NoOutcome

MaxLeads == 2
MaxSearchTerms == 2
MaxCampaigns == 2

SeqsUpTo(S, n) == UNION {[1..k -> S] : k \in 0..n}

ClockInputs == {10}

\* leads dated before the window, on its first instant, now, after now, and
\* with a date that does not parse
LeadInputs(now) ==
    {[valid |-> TRUE, time |-> now - ThreeDays - 1],
     [valid |-> TRUE, time |-> now - ThreeDays],
     [valid |-> TRUE, time |-> now + 1],
     [valid |-> FALSE, time |-> 0]}

TermInputs ==
    {TermString(<<"B", "u", "i", "l", "d", "e", "r">>),
     TermString(<<"f", "l", "i", "g", "h", "t", "s">>),
     TermObject(<<"h", "o", "m", "e", " ", "i", "m", "p", "r", "o", "v", "e",
                  "m", "e", "n", "t">>),
     TermObjectWithoutTerm}

CampaignInputs ==
    {[hasCtr |-> TRUE, ctr |-> CtrThreshold - 1,
      hasConversionRate |-> TRUE,
      conversionRate |-> ConversionRateThreshold],
     [hasCtr |-> TRUE, ctr |-> CtrThreshold,
      hasConversionRate |-> TRUE,
      conversionRate |-> ConversionRateThreshold - 1],
     [hasCtr |-> TRUE, ctr |-> CtrThreshold,
      hasConversionRate |-> TRUE,
      conversionRate |-> ConversionRateThreshold],
     [hasCtr |-> FALSE, ctr |-> 0,
      hasConversionRate |-> FALSE, conversionRate |-> 0]}

FieldInputs(S, n) == {Absent} \cup {Present(l) : l \in SeqsUpTo(S, n)}

ReportInputs(now) ==
    [leads : FieldInputs(LeadInputs(now), MaxLeads),
     searchTerms : FieldInputs(TermInputs, MaxSearchTerms),
     campaigns : FieldInputs(CampaignInputs, MaxCampaigns)]

EmptyReport == [leads |-> Absent, searchTerms |-> Absent, campaigns |-> Absent]

AnalyzerIdle ==
    /\ analysisNow \in ClockInputs
    /\ report = EmptyReport
    /\ apc = "analyzed"
    /\ analysis = NoAnalysis

AnalyzerInit ==
    /\ analysisNow \in ClockInputs
    /\ report \in ReportInputs(analysisNow)
    /\ apc = "ready"
    /\ analysis = NoAnalysis

DispatcherIdle ==
    /\ tools = ConstructorTools
    /\ mccEnv = Undef
    /\ pc = "idle"
    /\ toolName = ""
    /\ args = ArgsUndefined
    /\ sink = {}
    /\ log = <<>>
    /\ adapterCalls = <<>>
    /\ queries = 0
    /\ pending = NoPending
    /\ answer = NoAnswer
    /\ adapterResult = NoOutcome
    /\ outcome = NoOutcome

MaxTitlePieces == 2

TitlePieces ==
    {<<"A", "d", " ">>, ISOWeekToken, <<"{", "I", "S", "O">>,
     <<" ", "W", "e", "e", "k", "}">>}

RECURSIVE Concat(_)
Concat(pieces) ==
    IF pieces = <<>> THEN <<>> ELSE Head(pieces) \o Concat(Tail(pieces))

TitleInputs ==
    {NoText} \cup {Text(Concat(ps)) : ps \in SeqsUpTo(TitlePieces, MaxTitlePieces)}

ListIdInputs == {Undef, Str(""), Str("901")}

TaskDataInputs ==
    {[NoTaskData EXCEPT !.title = t, !.listId = l, !.priority = p] :
        t \in TitleInputs, l \in ListIdInputs, p \in {0, 1}}

RecommendationInputs ==
    {Absent, Present(<<>>), Present(<<NoLeadData>>),
     Present(<<NoRecentLeads, LowPerformers>>)}

AuditDataInputs ==
    {[NoAuditData EXCEPT !.recommendations = r, !.listId = l,
                         !.hasDataPoints = d] :
        r \in RecommendationInputs, l \in ListIdInputs, d \in BOOLEAN}

TokenInputs == {Undef, Str(""), Str("pk_token")}

YearInputs == {2023, 2024}
HourInputs == {0, 23}

ClockAt(y, d, h) == [year |-> y, day |-> d, hour |-> h]

\* every day of a normal and of a leap year
AllClocks ==
    UNION {{ClockAt(y, d, h) : d \in 0..(DaysInYear(y) - 1), h \in HourInputs} :
           y \in YearInputs}

\* 1 and 2 January, a day in mid-year, 31 December of a leap year
SomeClocks ==
    {ClockAt(2023, 0, 0), ClockAt(2023, 1, 23), ClockAt(2024, 200, 0),
     ClockAt(2024, 365, 23)}

StatusInputs == {199, 200, 299, 300, 404}

ResponseBodies ==
    {[id |-> "t1", url |-> "https://app.clickup.com/t/t1", err |-> ""],
     [id |-> "", url |-> "", err |-> "List not found"],
     [id |-> "", url |-> "", err |-> ""]}

CreateTaskResponses ==
    {[kind |-> "response", statusCode |-> c, parseable |-> TRUE, body |-> b] :
        c \in StatusInputs, b \in ResponseBodies}
    \cup {[kind |-> "response", statusCode |-> c, parseable |-> FALSE,
           body |-> [id |-> "", url |-> "", err |-> "Unexpected token"]] :
        c \in StatusInputs}
    \cup {[kind |-> "error", statusCode |-> 0, parseable |-> FALSE,
           body |-> [id |-> "", url |-> "", err |-> "ECONNRESET"]]}

QueryInputs == {Undef, Str(""), Str("roof leak"), Str(LoneSurrogate)}
TypeInputs ==
    {Undef, Null, Str("all"), Str("tasks"), Str("docs"), Str("lists")}

SearchPropsInputs ==
    UNION { {[k \in ks |-> IF k = "query" THEN q ELSE t] :
                q \in QueryInputs, t \in TypeInputs} :
            ks \in SUBSET {"query", "type"} }

SearchOptionsInputs ==
    {ArgsUndefined, ArgsNull} \cup {ArgsObject(p) : p \in SearchPropsInputs}

MaxItems == 2

ItemInputs == {"a", "b"}

\* bodies of a search answer: the list is there, the key is missing (shape
\* "list" with no items stands for both), or it cannot be mapped
SearchBodies ==
    {[shape |-> "list", items |-> l] : l \in SeqsUpTo(ItemInputs, MaxItems)}
    \cup {[shape |-> "malformed", items |-> <<"a">>]}

SearchResponses ==
    {[kind |-> "response", statusCode |-> c, parseable |-> TRUE, body |-> b] :
        c \in {200, 404}, b \in SearchBodies}
    \cup {[kind |-> "response", statusCode |-> c, parseable |-> FALSE,
           body |-> [shape |-> "malformed", items |-> <<>>]] : c \in {200, 502}}
    \cup {[kind |-> "error", statusCode |-> 0, parseable |-> FALSE,
           body |-> [shape |-> "malformed", items |-> <<>>]]}

SpaceIdInputs == {Undef, Str("55")}
TaskIdInputs == {Undef, Str("86abc")}

ListsBodies ==
    {[err |-> "", lists |-> <<>>], [err |-> "", lists |-> <<"l1", "l2">>],
     [err |-> "Space not found", lists |-> <<>>]}

GetListsResponses ==
    {[kind |-> "response", statusCode |-> c, parseable |-> TRUE, body |-> b] :
        c \in StatusInputs, b \in ListsBodies}
    \cup {[kind |-> "response", statusCode |-> c, parseable |-> FALSE,
           body |-> [err |-> "Unexpected token", lists |-> <<>>]] :
        c \in StatusInputs}
    \cup {[kind |-> "error", statusCode |-> 0, parseable |-> FALSE,
           body |-> [err |-> "ECONNRESET", lists |-> <<>>]]}

TaskBodies ==
    {[err |-> "", name |-> "Fix roof", hasStatus |-> TRUE, status |-> "open"],
     [err |-> "", name |-> "", hasStatus |-> FALSE, status |-> ""],
     [err |-> "Task not found", name |-> "", hasStatus |-> FALSE,
      status |-> ""]}

GetTaskContextResponses ==
    {[kind |-> "response", statusCode |-> c, parseable |-> TRUE, body |-> b] :
        c \in StatusInputs, b \in TaskBodies}
    \cup {[kind |-> "response", statusCode |-> c, parseable |-> FALSE,
           body |-> [err |-> "Unexpected token", name |-> "",
                     hasStatus |-> FALSE, status |-> ""]] :
        c \in StatusInputs}
    \cup {[kind |-> "error", statusCode |-> 0, parseable |-> FALSE,
           body |-> [err |-> "ECONNRESET", name |-> "", hasStatus |-> FALSE,
                     status |-> ""]]}

TrackerIdle ==
    /\ clickupToken = Undef
    /\ trackerNow = ClockAt(2023, 0, 0)
    /\ tpc = "idle"
    /\ tcall = NoCall
    /\ requests = <<>>
    /\ responses = <<>>
    /\ results = NoResults
    /\ tresult = NoOutcome

TrackerInit(clocks) ==
    /\ clickupToken \in TokenInputs
    /\ trackerNow \in clocks
    /\ tpc = "idle"
    /\ tcall = NoCall
    /\ requests = <<>>
    /\ responses = <<>>
    /\ results = NoResults
    /\ tresult = NoOutcome


QueryTypeInputs ==
    {Undef, Str("campaigns"), Str("keywords"), Str("search_terms"),
     Str("ads"), Str("ad_groups")}

TimeRangeInputs == {Undef, Str("LAST_30_DAYS")}

FetchOptionsInputs ==
    {ArgsUndefined, ArgsNull}
    \cup {ArgsObject([k \in {"customerId", "timeRange", "queryType"} |->
                         CASE k = "customerId" -> c
                           [] k = "timeRange" -> r
                           [] OTHER -> q]) :
            c \in {Undef, Str(""), Str("123456")}, r \in TimeRangeInputs,
            q \in QueryTypeInputs}

MaxRows == 2

RawDataInputs ==
    {[kind |-> "rows", count |-> n] : n \in 0..MaxRows}
    \cup {[kind |-> k, count |-> 0] : k \in {"failed", "notArray", "nullRow"}}

FetchIdle ==
    /\ fpc = "idle"
    /\ fcall = NoFetch
    /\ fanswer = NoRawData
    /\ fresult = NoOutcome


MaxHeaderPieces == 3

HeaderPieces ==
    {Bearer, <<"b", "e", "a", "r", "e", "r">>, <<"B", "a", "s", "i", "c">>,
     <<"t", "1">>, <<"t", "2">>, <<>>}

RECURSIVE JoinPieces(_)
JoinPieces(pieces) ==
    IF Len(pieces) = 1 THEN pieces[1]
    ELSE pieces[1] \o <<" ">> \o JoinPieces(Tail(pieces))

\* no header, or pieces joined by single spaces (an empty piece gives a
\* leading, doubled or trailing space, or the empty header)
HeaderInputs ==
    {NoText}
    \cup {Text(JoinPieces(p)) :
            p \in UNION {[1..n -> HeaderPieces] : n \in 1..MaxHeaderPieces}}

AuthTokenInputs == {NoText, Text(<<>>), Text(<<"t", "1">>)}

AuthIdle ==
    /\ authToken = NoText
    /\ hpc = "idle"
    /\ authHeader = NoText
    /\ nextCalls = 0
    /\ reply = NoResponse

AuthInit ==
    /\ authToken \in AuthTokenInputs
    /\ hpc = "idle"
    /\ authHeader = NoText
    /\ nextCalls = 0
    /\ reply = NoResponse

EnvValueInputs == {Undef, Str(""), Str("configured")}

EnvInputs ==
    {Env(i, s, r, a) : i \in EnvValueInputs, s \in EnvValueInputs,
                       r \in EnvValueInputs, a \in EnvValueInputs}

RefreshAnswerInputs ==
    {RefreshAnswer("transportError", Undef, Undef),
     RefreshAnswer("unparseable", Undef, Undef),
     RefreshAnswer("null", Undef, Undef)}
    \cup {RefreshAnswer("object", e, t) :
             e \in {Undef, Str(""), Str("invalid_grant")},
             t \in {Undef, Str(""), Str("refreshed")}}

OAuthInit ==
    /\ oauthEnv \in EnvInputs
    /\ opc = "idle"
    /\ warnFails = FALSE
    /\ refreshes = 0
    /\ refreshAnswer = NoRefreshAnswer
    /\ tokenResult = NoOutcome

OAuthIdle ==
    /\ oauthEnv = NoEnv
    /\ opc = "idle"
    /\ warnFails = FALSE
    /\ refreshes = 0
    /\ refreshAnswer = NoRefreshAnswer
    /\ tokenResult = NoOutcome

OthersIdle == FetchIdle /\ AuthIdle /\ OAuthIdle

\* the dispatcher and the operations bound to it
Init == DispatcherInit /\ AnalyzerIdle /\ TrackerIdle /\ OthersIdle

Next ==
    \/ Invoke
    \/ UpstreamAnswers
    \/ AdapterFailsEarly
    \/ CallerReceives

Spec == Init /\ [][Next]_vars

\* the report analyzer
InitAnalyzer == DispatcherIdle /\ AnalyzerInit /\ TrackerIdle /\ OthersIdle

NextAnalyzer == Analyze

SpecAnalyzer == InitAnalyzer /\ [][NextAnalyzer]_vars

\* getISOWeek on every day of the year
InitWeek ==
    DispatcherIdle /\ AnalyzerIdle /\ TrackerInit(AllClocks) /\ OthersIdle

NextWeek ==
    \/ GetISOWeek
    \/ TrackerCallReturns

SpecWeek == InitWeek /\ [][NextWeek]_vars

\* the task-tracker adapter
InitTracker ==
    DispatcherIdle /\ AnalyzerIdle /\ TrackerInit(SomeClocks) /\ OthersIdle

NextTracker ==
    \/ \E taskData \in TaskDataInputs : CreateTask(taskData)
    \/ \E auditData \in AuditDataInputs : CreateAdAuditTask(auditData)
    \/ GetISOWeek
    \/ \E response \in CreateTaskResponses : CreateTaskResponse(response)
    \/ \E searchOptions \in SearchOptionsInputs : SearchClickUp(searchOptions)
    \/ \E response \in SearchResponses : SearchTasksResponse(response)
    \/ \E response \in SearchResponses : SearchDocsResponse(response)
    \/ \E spaceId \in SpaceIdInputs : GetLists(spaceId)
    \/ \E response \in GetListsResponses : GetListsResponse(response)
    \/ \E taskId \in TaskIdInputs : GetTaskContext(taskId)
    \/ \E response \in GetTaskContextResponses :
            GetTaskContextResponse(response)
    \/ TrackerCallReturns

SpecTracker == InitTracker /\ [][NextTracker]_vars


\* fetchLiveGoogleAdsData
InitFetch == DispatcherIdle /\ AnalyzerIdle /\ TrackerIdle /\ OthersIdle

\* the handler of authMiddleware(authToken)
InitAuth ==
    /\ DispatcherIdle /\ AnalyzerIdle /\ TrackerIdle /\ FetchIdle /\ OAuthIdle
    /\ AuthInit

NextAuth ==
    \/ \E header \in HeaderInputs : Handler(header)
    \/ RequestEnds

SpecAuth == InitAuth /\ [][NextAuth]_vars

\* getValidAccessToken
InitOAuth ==
    /\ DispatcherIdle /\ AnalyzerIdle /\ TrackerIdle /\ FetchIdle /\ AuthIdle
    /\ OAuthInit

NextOAuth ==
    \/ \E failing \in BOOLEAN : GetValidAccessToken(failing)
    \/ \E ans \in RefreshAnswerInputs : RefreshEnds(ans)
    \/ TokenCallReturns

SpecOAuth == InitOAuth /\ [][NextOAuth]_vars

NextFetch ==
    \/ \E options \in FetchOptionsInputs, sinkFails \in BOOLEAN :
            FetchLiveGoogleAdsData(options, sinkFails)
    \/ \E rawData \in RawDataInputs : FetchAnswers(rawData)
    \/ FetchReturns

SpecFetch == InitFetch /\ [][NextFetch]_vars

----------------------------------------------------------------------------
(* Properties of the dispatcher *)

IsSuccessEnvelope(e) ==
    DOMAIN e = {"success", "data", "message"} /\ e.success = TRUE
IsFailureEnvelope(e) ==
    DOMAIN e = {"success", "error"} /\ e.success = FALSE
IsEnvelope(e) == IsSuccessEnvelope(e) \/ IsFailureEnvelope(e)

DispatcherConsoleCalls == {"entry", "outcome"}

\* the operation the switch statement binds to a tool name
BoundOp(name) == Dispatch(name, ArgsObject([k \in {"customerId"} |-> Str("1")])).op

RequiredTruthy ==
    \A k \in RequiredOf(toolName) : Truthy(Destructure(args, k))
RequiredPresent ==
    \A k \in RequiredOf(toolName) : HasKey(args, k)

\* C1: every completed handleToolCall invocation returned one of the two
\* envelopes, {success:true, data, message} or {success:false, error}; none
\* completed by throwing.
C1_NeverThrows ==
    pc = "done" =>
        /\ outcome.kind = "return"
        /\ IsEnvelope(outcome.value)

\* (C1, what does hold) an invocation throws only when one of its own two
\* console calls threw, and then it throws that error; whatever the name,
\* the arguments and the way the bound operation settled.
C1_ThrowsOnlyFromConsole ==
    pc = "done" =>
        \/ outcome.kind = "return" /\ IsEnvelope(outcome.value)
        \/ /\ outcome = Thrown(SinkError)
           /\ sink \cap DispatcherConsoleCalls # {}

\* C2: an invocation with an unregistered name returned the failure envelope
\* whose error is "Unknown tool: " followed by that name, and started no
\* adapter operation and no upstream query.
C2_UnknownTool ==
    (pc = "done" /\ toolName \notin RegisteredNames) =>
        /\ outcome = Returned(Failure("Unknown tool: " \o toolName))
        /\ adapterCalls = <<>>
        /\ queries = 0

\* (C2, what does hold) with an unregistered name no adapter operation and
\* no query is started, and the invocation returns nothing but that
\* failure envelope.
C2_UnknownToolWhenReturned ==
    (pc = "done" /\ toolName \notin RegisteredNames) =>
        /\ adapterCalls = <<>>
        /\ queries = 0
        /\ outcome.kind = "return" =>
               outcome.value = Failure("Unknown tool: " \o toolName)

OutcomeWithWorkingSink ==
    LET failing == sink \ DispatcherConsoleCalls
        d == Dispatch(toolName, args)
    IN IF d.next = "throw"
       THEN CatchBlock(d.error, failing).result
       ELSE LET p == [op |-> d.op, customerId |-> d.customerId,
                      days |-> d.days,
                      inFlight |-> IssuesQuery(d.op, d.customerId, d.days,
                                              mccEnv)]
                a == IF p.inFlight
                     THEN AdapterSettles(p.op, p.customerId, p.days,
                                         answer, failing)
                     ELSE AdapterCatch(p.op, p.customerId, p.days, failing)
            IN AfterAwait(p, a.result, failing).result

Logged(point) == \E i \in 1..Len(log) : log[i].point = point

\* C4: every invocation is logged on entry and on outcome, and a failure of
\* the logging sink at either point changes nothing: the invocation returns
\* the envelope it would have returned had logging succeeded.
C4_LoggingNeverAffectsResult ==
    pc = "done" =>
        /\ outcome.kind = "return"
        /\ outcome = OutcomeWithWorkingSink
        /\ sink \cap DispatcherConsoleCalls = {} =>
               Logged("entry") /\ Logged("outcome")

----------------------------------------------------------------------------
(* Properties of the report analyzer *)

Recommended(text) ==
    Cardinality({i \in 1..Len(analysis.recommendations) :
                    analysis.recommendations[i] = text})

HasLeads == report.leads.present /\ report.leads.list # <<>>

\* some lead is dated at or after the instant three days before now
SomeLeadInWindow ==
    \E i \in 1..Len(report.leads.list) :
        /\ report.leads.list[i].valid
        /\ report.leads.list[i].time >= analysisNow - 3

SomeTermUnrelated ==
    /\ report.searchTerms.present
    /\ \E i \in 1..Len(report.searchTerms.list) :
          LET t == report.searchTerms.list[i]
          IN \A k \in 1..Len(relevantTerms) :
                ~Includes(ToLowerCase(t.text), relevantTerms[k])

\* some campaign has ctr < 0.02 or conversionRate < 0.01
SomeCampaignLow ==
    /\ report.campaigns.present
    /\ \E i \in 1..Len(report.campaigns.list) :
          LET c == report.campaigns.list[i]
          IN \/ c.hasCtr /\ c.ctr < 200
             \/ c.hasConversionRate /\ c.conversionRate < 100

NoRuleFires ==
    /\ HasLeads /\ SomeLeadInWindow
    /\ ~SomeTermUnrelated
    /\ ~SomeCampaignLow

\* C5: the recommendations list analyzeGoogleAdsReport returns is never
\* empty, and when none of the three rules fires it is exactly the two
\* default recommendations.
C5_NeverEmpty ==
    apc = "analyzed" =>
        /\ Len(analysis.recommendations) >= 1
        /\ NoRuleFires =>
              analysis.recommendations =
                  <<"Review search terms", "Check ad copy performance">>

\* C5 witness: a report on which no rule fires, its search terms absent
C5_Witness ==
    /\ apc = "analyzed"
    /\ NoRuleFires
    /\ ~report.searchTerms.present
    /\ report.campaigns.present /\ report.campaigns.list # <<>>
    /\ Len(analysis.recommendations) = 2

\* C6: the low-performer recommendation is returned exactly once when some
\* campaign has ctr < 0.02 or conversionRate < 0.01, however many do, and
\* not at all when none does.
C6_LowPerformerOnce ==
    apc = "analyzed" =>
        Recommended(LowPerformers) = IF SomeCampaignLow THEN 1 ELSE 0

\* C6 witness: two campaigns under a threshold, one recommendation
C6_Witness ==
    /\ apc = "analyzed"
    /\ Len(report.campaigns.list) = 2
    /\ \A i \in 1..2 : IsLowPerforming(report.campaigns.list[i])
    /\ report.campaigns.list[1] # report.campaigns.list[2]
    /\ Recommended(LowPerformers) = 1

\* some lead is dated in the trailing three days: from three days before
\* now up to now
SomeLeadInTrailingWindow ==
    \E i \in 1..Len(report.leads.list) :
        /\ report.leads.list[i].valid
        /\ report.leads.list[i].time >= analysisNow - 3
        /\ report.leads.list[i].time <= analysisNow

----------------------------------------------------------------------------
(* Properties of the task-tracker adapter *)

IsDigit(c) == \E d \in 1..10 : DigitChars[d] = c
DigitValue(c) == (CHOOSE d \in 1..10 : DigitChars[d] = c) - 1

\* YYYY-Wnn: four digits, "-W", two digits
HasWeekShape(w) ==
    /\ Len(w) = 8
    /\ \A i \in {1, 2, 3, 4, 7, 8} : IsDigit(w[i])
    /\ w[5] = "-" /\ w[6] = "W"

WeekValue(w) == 10 * DigitValue(w[7]) + DigitValue(w[8])

GetISOWeekReturned == tpc = "done" /\ tcall.op = "getISOWeek"

\* C8: on every date getISOWeek returns YYYY-Wnn, nn two digits with a
\* value from 01 to 53.
C8_WeekInRange ==
    GetISOWeekReturned =>
        /\ HasWeekShape(tresult.value)
        /\ WeekValue(tresult.value) \in 1..53

\* (C8, what does hold) the shape is YYYY-Wnn with the clock's year and nn
\* from 00 to 53, and nn is 00 exactly on 1 January
C8_WeekFromZero ==
    GetISOWeekReturned =>
        /\ HasWeekShape(tresult.value)
        /\ SubSeq(tresult.value, 1, 4) = NumberToString(trackerNow.year)
        /\ WeekValue(tresult.value) \in 0..53
        /\ WeekValue(tresult.value) = 0 <=> trackerNow.day = 0

TokenAt(text, i) ==
    /\ i + Len(ISOWeekToken) - 1 <= Len(text)
    /\ SubSeq(text, i, i + Len(ISOWeekToken) - 1) = ISOWeekToken

TokenCount(text) == Cardinality({i \in 1..Len(text) : TokenAt(text, i)})

\* text with the token at position i replaced by the week string
WithWeekAt(text, i, week) ==
    SubSeq(text, 1, i - 1) \o week
        \o SubSeq(text, i + Len(ISOWeekToken), Len(text))

CreateTaskSent == tcall.op = "createTask" /\ requests # <<>>

\* C9: the name createTask sends is the title with one occurrence of
\* {ISO Week} replaced by the current week string, the others left, when the
\* title holds the token; it is the title itself when it does not.
C9_TitleSubstitution ==
    CreateTaskSent =>
        LET title == tcall.taskData.title.text
            name == requests[1].body.name
            week == getISOWeek(trackerNow)
        IN IF TokenCount(title) > 0
           THEN /\ \E i \in 1..Len(title) :
                      TokenAt(title, i) /\ name = WithWeekAt(title, i, week)
                /\ TokenCount(name) = TokenCount(title) - 1
           ELSE name = title

\* C9 witness: a title holding the token twice was sent
C9_Witness ==
    /\ CreateTaskSent
    /\ TokenCount(tcall.taskData.title.text) = 2
    /\ TokenCount(requests[1].body.name) = 1
    /\ Len(requests) = 1

AuditCalledWithNothing ==
    /\ tcall.op = "createAdAuditTask"
    /\ \/ ~tcall.auditData.recommendations.present
       \/ tcall.auditData.recommendations.list = <<>>

\* C10: createAdAuditTask with no recommendations, absent or empty, returns
\* {success:false} with a message and issues no request, whatever the token
\* and the list identifier; it does not throw.
C10_NothingToAudit ==
    AuditCalledWithNothing =>
        /\ tpc = "done"
        /\ requests = <<>>
        /\ tresult.kind = "return"
        /\ tresult.value.success = FALSE
        /\ "message" \in DOMAIN tresult.value
        /\ tresult.value.message # ""

\* C10 witness: an empty list, with a token and a list identifier configured
C10_Witness ==
    /\ AuditCalledWithNothing
    /\ tcall.auditData.recommendations.present
    /\ Truthy(clickupToken)
    /\ Truthy(tcall.auditData.listId)
    /\ tresult = Returned(NoRecommendationsResult)

----------------------------------------------------------------------------
(* Properties of searchClickUp, getLists, getTaskContext and createTask *)

SearchCalled == tcall.op = "searchClickUp" /\ tpc # "idle"
SearchEnded == tcall.op = "searchClickUp" /\ tpc = "done"
SearchPassedGuards == SearchGuard(tcall.searchOptions, clickupToken) = ""
SearchType == SearchOptions(tcall.searchOptions).type

RequestIssuedTo(endpoint) ==
    \E i \in 1..Len(requests) : requests[i].endpoint = endpoint

\* the answer to the request sent to an endpoint, when it has ended
HasAnswerFrom(endpoint) ==
    \E i \in 1..Len(responses) : requests[i].endpoint = endpoint
AnswerFrom(endpoint) ==
    responses[CHOOSE i \in 1..Len(responses) : requests[i].endpoint = endpoint]

\* a sub-call answer that is a network error, a status outside 2xx or a body
\* that does not parse
SubCallFailed(response) ==
    \/ response.kind = "error"
    \/ ~response.parseable
    \/ response.statusCode \notin 200..299

\* the identifiers an answer lists, none when the sub-call failed
IdsListed(response) ==
    IF SubCallFailed(response) \/ response.body.shape # "list"
    THEN <<>>
    ELSE response.body.items

IdsOf(list) == [i \in 1..Len(list) |-> list[i].id]

TotalIsSum(r) == r.totalResults = Len(r.tasks) + Len(r.docs)

\* C11: a search that passed its guards has issued a tasks sub-call exactly
\* when type is 'all' or 'tasks' and a docs sub-call exactly when type is
\* 'all' or 'docs', and the result it returned has
\* totalResults = tasks.length + docs.length.
C11_SubCallsByType ==
    SearchEnded /\ SearchPassedGuards =>
        /\ RequestIssuedTo("space/task") <=> WantsTasks(SearchType)
        /\ RequestIssuedTo("space/doc") <=> WantsDocs(SearchType)
        /\ tresult.kind = "return"
        /\ TotalIsSum(tresult.value.results)

\* (C11, what does hold) a sub-call is never issued for a type that does not
\* ask for it, every type that asks for it gets it unless a sub-call threw
\* while building its request, in which case the search ends at once with
\* success:false, and every returned result has the total of its two lists.
C11_SubCallsUnlessAborted ==
    SearchEnded /\ SearchPassedGuards =>
        /\ tresult.kind = "return"
        /\ TotalIsSum(tresult.value.results)
        /\ RequestIssuedTo("space/task") => WantsTasks(SearchType)
        /\ RequestIssuedTo("space/doc") => WantsDocs(SearchType)
        /\ tresult.value.success =>
              /\ WantsTasks(SearchType) => RequestIssuedTo("space/task")
              /\ WantsDocs(SearchType) => RequestIssuedTo("space/doc")
        /\ ~tresult.value.success =>
              /\ requests = <<>>
              /\ tresult.value.results.tasks = <<>>
              /\ tresult.value.results.docs = <<>>

\* C12: in a search of type 'all' whose tasks request has ended, the docs
\* request is issued whatever the tasks answer was; when the search ends it
\* returns success:true, a failed sub-call has contributed the empty list
\* and the other sub-call's results are in the combined result.
C12_FailedSubCallIsEmpty ==
    SearchCalled /\ SearchType = Str("all") /\ Len(responses) >= 1 =>
        /\ Len(requests) = 2
        /\ requests[2].endpoint = "space/doc"
        /\ tpc = "done" =>
              /\ Len(responses) = 2
              /\ tresult.kind = "return"
              /\ tresult.value.success = TRUE
              /\ IdsOf(tresult.value.results.tasks) = IdsListed(responses[1])
              /\ IdsOf(tresult.value.results.docs) = IdsListed(responses[2])
              /\ SubCallFailed(responses[1]) =>
                    tresult.value.results.tasks = <<>>
              /\ SubCallFailed(responses[2]) =>
                    tresult.value.results.docs = <<>>

\* a search of type 'all' ended: its tasks sub-call failed, its docs sub-call
\* listed two documents, and both documents are in the result
C12_Witness ==
    /\ SearchEnded /\ SearchType = Str("all")
    /\ Len(responses) = 2
    /\ SubCallFailed(responses[1])
    /\ ~SubCallFailed(responses[2])
    /\ tresult.kind = "return"
    /\ tresult.value.success = TRUE
    /\ Len(tresult.value.results.docs) = 2
    /\ tresult.value.results.tasks = <<>>

\* C13: a search never has more than one sub-call in flight, it returns a
\* combined result only when every request it issued has ended, and that
\* result holds what each issued sub-call answered (nothing for a sub-call
\* that was not issued), so no answer of a sub-call is ever left out.
C13_ResultAfterAllSubCalls ==
    SearchCalled =>
        /\ Len(responses) <= Len(requests)
        /\ Len(requests) <= Len(responses) + 1
        /\ tpc = "done" /\ tresult.kind = "return" =>
              /\ Len(responses) = Len(requests)
              /\ IdsOf(tresult.value.results.tasks) =
                    IF HasAnswerFrom("space/task")
                    THEN IdsListed(AnswerFrom("space/task")) ELSE <<>>
              /\ IdsOf(tresult.value.results.docs) =
                    IF HasAnswerFrom("space/doc")
                    THEN IdsListed(AnswerFrom("space/doc")) ELSE <<>>

\* a search of type 'all' ended with both answers in its result
C13_Witness ==
    /\ SearchEnded
    /\ Len(requests) = 2 /\ Len(responses) = 2
    /\ tresult.kind = "return"
    /\ Len(tresult.value.results.tasks) = 1
    /\ Len(tresult.value.results.docs) = 2
    /\ tresult.value.results.totalResults = 3

TokenAbsent == ~Truthy(clickupToken)

CallsCreateTask ==
    \/ tcall.op = "createTask"
    \/ tcall.op = "createAdAuditTask" /\ ~NothingToAudit(tcall.auditData)

TaskDataGiven ==
    IF tcall.op = "createTask"
    THEN tcall.taskData
    ELSE AuditTaskData(tcall.auditData, trackerNow)

TitleOrListIdMissing ==
    \/ ~TaskDataGiven.title.present
    \/ TaskDataGiven.title.text = <<>>
    \/ ~Truthy(TaskDataGiven.listId)

QueryEmpty ==
    /\ tcall.searchOptions.t # "null"
    /\ ~Truthy(SearchOptions(tcall.searchOptions).query)

ThrewBeforeAnyRequest(msg) ==
    /\ tpc = "done"
    /\ tresult = Thrown(msg)
    /\ requests = <<>>
    /\ responses = <<>>

\* C14: a call of createTask, searchClickUp, getLists or getTaskContext made
\* without CLICKUP_TOKEN, a createTask call without title or listId and a
\* searchClickUp call without a query have thrown, and no request was issued.
C14_ThrowsBeforeAnyRequest ==
    tpc # "idle" =>
        /\ (TokenAbsent /\ (CallsCreateTask \/ tcall.op \in
                {"searchClickUp", "getLists", "getTaskContext"})) =>
              ThrewBeforeAnyRequest(
                  "CLICKUP_TOKEN environment variable is required")
        /\ (~TokenAbsent /\ CallsCreateTask /\ TitleOrListIdMissing) =>
              ThrewBeforeAnyRequest("Task title and listId are required")
        /\ (~TokenAbsent /\ tcall.op = "searchClickUp" /\ QueryEmpty) =>
              ThrewBeforeAnyRequest("Search query is required")

\* getLists was called without a token and threw before any request
C14_Witness ==
    /\ tcall.op = "getLists"
    /\ TokenAbsent
    /\ ThrewBeforeAnyRequest("CLICKUP_TOKEN environment variable is required")

CreateTaskValid == CallsCreateTask /\ ~TokenAbsent /\ ~TitleOrListIdMissing

\* C15: a valid createTask invocation has issued exactly one request; when
\* the request has ended, a 2xx status with a body that parses gave
\* success:true with the task's id and url, any other status with a body
\* that parses gave {success:false, error, statusCode} without throwing, and
\* it threw exactly when the transport failed or the body did not parse.
C15_CreateTaskOutcome ==
    tpc # "idle" /\ CreateTaskValid =>
        /\ Len(requests) = 1
        /\ requests[1].method = "POST"
        /\ tpc = "done" =>
              LET response == responses[1]
                  broken == response.kind = "error" \/ ~response.parseable
              IN /\ Len(responses) = 1
                 /\ tresult.kind = "throw" <=> broken
                 /\ ~broken /\ response.statusCode \in 200..299 =>
                       /\ tresult.kind = "return"
                       /\ tresult.value.success = TRUE
                       /\ tresult.value.taskId = response.body.id
                       /\ tresult.value.taskUrl = response.body.url
                 /\ ~broken /\ response.statusCode \notin 200..299 =>
                       /\ tresult.kind = "return"
                       /\ tresult.value.success = FALSE
                       /\ tresult.value.statusCode = response.statusCode
                       /\ tresult.value.error # ""

\* createTask was answered 404 and returned the failure with that status
C15_Witness ==
    /\ tcall.op = "createTask" /\ tpc = "done"
    /\ Len(requests) = 1 /\ Len(responses) = 1
    /\ responses[1].kind = "response" /\ responses[1].statusCode = 404
    /\ tresult.kind = "return"
    /\ tresult.value.success = FALSE
    /\ tresult.value.statusCode = 404
    /\ tresult.value.error = "List not found"

\* C16: getLists or getTaskContext, answered with a status outside 2xx (and
\* a body that parses), has returned, without throwing, an envelope carrying
\* success:false, an error message and the status code of the answer.
C16_RemoteErrorEnvelope ==
    /\ tcall.op \in {"getLists", "getTaskContext"}
    /\ tpc = "done" /\ Len(responses) = 1
    /\ responses[1].kind = "response" /\ responses[1].parseable
    /\ responses[1].statusCode \notin 200..299
    => /\ tresult.kind = "return"
       /\ tresult.value.success = FALSE
       /\ "error" \in DOMAIN tresult.value
       /\ "statusCode" \in DOMAIN tresult.value
       /\ tresult.value.statusCode = responses[1].statusCode

\* (C16, what does hold) on such an answer neither operation throws and both
\* return success:false with an error message; getTaskContext adds the
\* status code, getLists adds an empty lists array and no status code.
C16_RemoteErrorWithoutStatus ==
    /\ tcall.op \in {"getLists", "getTaskContext"}
    /\ tpc = "done" /\ Len(responses) = 1
    /\ responses[1].kind = "response" /\ responses[1].parseable
    /\ responses[1].statusCode \notin 200..299
    => /\ tresult.kind = "return"
       /\ tresult.value.success = FALSE
       /\ tresult.value.error # ""
       /\ tcall.op = "getTaskContext" =>
             /\ DOMAIN tresult.value = {"success", "error", "statusCode"}
             /\ tresult.value.statusCode = responses[1].statusCode
       /\ tcall.op = "getLists" =>
             /\ DOMAIN tresult.value = {"success", "error", "lists"}
             /\ tresult.value.lists = <<>>

----------------------------------------------------------------------------
(* Properties of the ad-platform adapter operations *)

\* the invocation called the operation and it has settled
AdapterSettled(op) == pc = "done" /\ adapterCalls = <<op>>

CustomerIdArg == Destructure(args, "customerId")
DaysArg == DestructureDefault(args, "days", DefaultDays)

\* the try block of the operation threw: before the query was issued (client
\* construction, the missing management account, an argument it cannot
\* use), in the query, or on a malformed row
TryBlockThrew(op) ==
    \/ queries = 0
    \/ answer.kind = "failed"
    \/ /\ op \in {"getAdSpend", "getKeywordPerformance"}
       /\ answer.kind = "rows"
       /\ ~AllWellFormed(answer.rows)

IsSpendFallbackFor(x, customerId, days) ==
    /\ x.kind = "spend" /\ x.source = "fallback"
    /\ x.customerId = customerId
    /\ x.period = days.v \o " days"

IsKeywordFallback(x) == x.kind = "keywords" /\ x.source = "fallback"

\* C17: a settled getAdSpend or getKeywordPerformance call has not thrown,
\* and when its try block threw it returned the fallback: the sample spend
\* summary for the requested customerId and period, or the sample keywords.
C17_NeverThrows ==
    \A op \in {"getAdSpend", "getKeywordPerformance"} :
        AdapterSettled(op) =>
            /\ adapterResult.kind = "return"
            /\ TryBlockThrew(op) =>
                  IF op = "getAdSpend"
                  THEN IsSpendFallbackFor(adapterResult.value, CustomerIdArg,
                                          DaysArg)
                  ELSE IsKeywordFallback(adapterResult.value)

\* (C17, what does hold) the two operations return, the fallback when the
\* try block threw and the live result when it did not, unless the catch
\* block itself throws: its console.error, or in getAdSpend the
\* interpolation of a days value that is a Symbol.
C17_FallbackUnlessCatchThrows ==
    \A op \in {"getAdSpend", "getKeywordPerformance"} :
        AdapterSettled(op) =>
            IF ~TryBlockThrew(op)
            THEN /\ adapterResult.kind = "return"
                 /\ adapterResult.value.source = "live"
            ELSE IF "adapter" \in sink
                 THEN adapterResult = Thrown(SinkError)
                 ELSE IF op = "getAdSpend" /\ DaysArg = Sym
                      THEN adapterResult = Thrown(SymbolError)
                      ELSE /\ adapterResult.kind = "return"
                           /\ IF op = "getAdSpend"
                              THEN IsSpendFallbackFor(adapterResult.value,
                                                      CustomerIdArg, DaysArg)
                              ELSE IsKeywordFallback(adapterResult.value)

MccNotConfigured == ~Truthy(mccEnv)

QueryingOps == {"getAccountInfo", "getAdSpend", "getKeywordPerformance"}

\* C18: getAccountInfo, getAdSpend or getKeywordPerformance, called while
\* GOOGLE_ADS_LOGIN_CUSTOMER_ID is not configured, has issued no query and
\* has failed with the configuration error.
C18_ConfigurationError ==
    \A op \in QueryingOps :
        AdapterSettled(op) /\ MccNotConfigured =>
            /\ queries = 0
            /\ adapterResult = Thrown("MCC Customer ID not configured")

\* (C18, what does hold) no query is issued, and the configuration error is
\* caught inside the operation: it returns what its catch block returns
\* (null, the sample spend summary, the sample keywords), or throws what its
\* catch block throws.
C18_ConfigurationErrorSwallowed ==
    \A op \in QueryingOps :
        AdapterSettled(op) /\ MccNotConfigured =>
            /\ queries = 0
            /\ answer = NoAnswer
            /\ adapterResult # Thrown("MCC Customer ID not configured")
            /\ adapterResult.kind = "return" =>
                  adapterResult.value = CatchValue(op, CustomerIdArg, DaysArg)
            /\ adapterResult.kind = "throw" =>
                  \/ "adapter" \in sink
                  \/ op = "getAdSpend" /\ DaysArg = Sym

\* C19: a getAccountInfo call whose try block threw (its console.error
\* working) has returned a displayable account object, not the error and
\* not an empty value.
C19_AccountInfoFallback ==
    /\ AdapterSettled("getAccountInfo")
    /\ TryBlockThrew("getAccountInfo")
    /\ "adapter" \notin sink
    => /\ adapterResult.kind = "return"
       /\ adapterResult.value.kind = "customer"

\* (C19, what does hold) such a call returns null, as does a call whose
\* query answered no row, and the dispatcher wraps the null in a success
\* envelope.
C19_AccountInfoNull ==
    /\ AdapterSettled("getAccountInfo")
    /\ "adapter" \notin sink
    /\ TryBlockThrew("getAccountInfo") \/ answer.rows = <<>>
    => /\ adapterResult = Returned(NullData)
       /\ outcome = Returned(Success(NullData,
              "Account info retrieved for " \o CustomerIdArg.v))

ListingReturned ==
    /\ AdapterSettled("listAccessibleAccounts")
    /\ adapterResult.kind = "return"
    /\ adapterResult.value.list # <<>>

KeepsUpstreamOrder(list) ==
    /\ answer.kind = "listing"
    /\ Len(list) = Len(answer.names)
    /\ \A i \in 1..Len(list) : list[i].resourceName = answer.names[i]

\* C20: in a non-empty listing returned by listAccessibleAccounts the first
\* entry has isManager true and every later entry has isManager false, and
\* the listing has the order and the length of the upstream's resource names.
C20_ManagerIsFirstOnly ==
    ListingReturned =>
        LET list == adapterResult.value.list
        IN /\ list[1].isManager
           /\ \A i \in 2..Len(list) : ~list[i].isManager
           /\ KeepsUpstreamOrder(list)

\* (C20, what does hold) an entry has isManager true exactly when its
\* resource name equals the first resource name, so a later entry repeating
\* the first name is flagged as well; order and length are kept.
C20_ManagerIsFirstName ==
    ListingReturned =>
        LET list == adapterResult.value.list
        IN /\ list[1].isManager
           /\ \A i \in 1..Len(list) :
                 list[i].isManager <=> answer.names[i] = answer.names[1]
           /\ KeepsUpstreamOrder(list)

----------------------------------------------------------------------------
(* Properties of fetchLiveGoogleAdsData *)

FetchEnded == fpc = "done" /\ fanswer # NoRawData
FetchQueryType == FetchOptions(fcall.options).queryType

\* the query failed or returned no rows
QueryFailedOrEmpty ==
    \/ fanswer.kind = "failed"
    \/ fanswer.kind = "rows" /\ fanswer.count = 0

\* C21: for each of the four query types, a fetchLiveGoogleAdsData call whose
\* query failed or returned no rows (its console.error working) has not
\* thrown and has returned the sample dataset, whose collection key and row
\* field names are those of a live result of that query type.
C21_SampleHasLiveShape ==
    /\ FetchEnded /\ QueryFailedOrEmpty /\ ~fcall.sinkFails
    /\ FetchQueryType.t = "string" /\ FetchQueryType.v \in QueryTypes
    => /\ fresult.kind = "return"
       /\ fresult.value.source = "sample"
       /\ fresult.value.collection = LiveCollection(FetchQueryType)
       /\ fresult.value.rowFields = LiveRowFields(FetchQueryType)

\* (C21, what does hold) such a call returns the sample dataset of its query
\* type; only the search_terms sample has the collection key and the row
\* fields of the live result; the campaigns and keywords samples name the
\* field averageCpc where the live rows name it avgCpc (and the campaigns
\* sample has no id and no channelType), and there is no ads sample: the
\* result is {data: [], analysisDate}. Every sample carries a top-level
\* analysisDate that no live result has.
C21_SampleShapes ==
    /\ FetchEnded /\ QueryFailedOrEmpty /\ ~fcall.sinkFails
    /\ FetchQueryType.t = "string" /\ FetchQueryType.v \in QueryTypes
    => /\ fresult.kind = "return"
       /\ fresult.value.source = "sample"
       /\ "analysisDate" \in fresult.value.keys
       /\ FetchQueryType = Str("search_terms") =>
             /\ fresult.value.collection = "searchTerms"
             /\ fresult.value.rowFields = LiveRowFields(FetchQueryType)
       /\ FetchQueryType \in {Str("campaigns"), Str("keywords")} =>
             /\ fresult.value.collection = LiveCollection(FetchQueryType)
             /\ "averageCpc" \in fresult.value.rowFields
             /\ "avgCpc" \notin fresult.value.rowFields
             /\ "avgCpc" \in LiveRowFields(FetchQueryType)
       /\ FetchQueryType = Str("ads") =>
             /\ fresult.value.collection = "data"
             /\ fresult.value.rows = 0

----------------------------------------------------------------------------
(* Properties of the live getAdSpend result *)

LiveSpendReturned ==
    /\ AdapterSettled("getAdSpend")
    /\ adapterResult.kind = "return"
    /\ adapterResult.value.source = "live"

Distance(a, b) == IF a >= b THEN a - b ELSE b - a

InWholeCents(amount) == amount.frac % MicrosPerCent = 0

\* per campaign: cost is cost_micros / 1,000,000; the counts are the row's
CampaignsConverted(x, rows) ==
    /\ Len(x.campaigns) = Len(rows)
    /\ \A i \in 1..Len(rows) :
          /\ Micros(x.campaigns[i].cost) = rows[i].cost_micros
          /\ rows[i].cost_micros = 1250500000 =>
                x.campaigns[i].cost = [whole |-> 1250, frac |-> 500000]

\* the totals of the counts are the sums of the per-campaign values
CountsSummed(x) ==
    /\ x.totalImpressions = SumOver(x.campaigns, "impressions")
    /\ x.totalClicks = SumOver(x.campaigns, "clicks")
    /\ x.totalConversions = SumOver(x.campaigns, "conversions")

TotalCostMicros(x) ==
    LET costs == [i \in 1..Len(x.campaigns) |->
                     [micros |-> Micros(x.campaigns[i].cost)]]
    IN SumOver(costs, "micros")

\* C22: in a live getAdSpend result every campaign cost is its cost_micros
\* divided by 1,000,000 (1,250,500,000 gives 1250.5), the totals for spend,
\* impressions, clicks and conversions are the sums of the per-campaign
\* values, and averageCpc is total spend divided by total clicks, 0 when
\* total clicks is 0.
C22_ExactTotals ==
    LiveSpendReturned =>
        LET x == adapterResult.value
        IN /\ CampaignsConverted(x, answer.rows)
           /\ CountsSummed(x)
           /\ Micros(x.totalSpend) = TotalCostMicros(x)
           /\ IF x.totalClicks = 0
              THEN x.averageCpc = Amount(0)
              ELSE Micros(x.averageCpc) * x.totalClicks = TotalCostMicros(x)

\* C22 (amended): as above, except that totalSpend is the sum of the
\* per-campaign costs rounded to the nearest hundredth, and averageCpc is
\* that (unrounded) sum divided by total clicks, rounded to the nearest
\* hundredth, 0 when total clicks is 0.
C22_RoundedTotals ==
    LiveSpendReturned =>
        LET x == adapterResult.value
        IN /\ CampaignsConverted(x, answer.rows)
           /\ CountsSummed(x)
           /\ InWholeCents(x.totalSpend)
           /\ 2 * Distance(Micros(x.totalSpend), TotalCostMicros(x))
                 <= MicrosPerCent
           /\ IF x.totalClicks = 0
              THEN x.averageCpc = Amount(0)
              ELSE /\ InWholeCents(x.averageCpc)
                   /\ 2 * Distance(Micros(x.averageCpc) * x.totalClicks,
                                   TotalCostMicros(x))
                         <= MicrosPerCent * x.totalClicks

\* C22 witness: a live result of two campaigns whose rounded totalSpend and
\* averageCpc are not the exact sum and quotient
C22_Witness ==
    /\ LiveSpendReturned
    /\ Len(adapterResult.value.campaigns) = 2
    /\ adapterResult.value.totalClicks > 0
    /\ Micros(adapterResult.value.totalSpend)
          # TotalCostMicros(adapterResult.value)
    /\ Micros(adapterResult.value.averageCpc)
          * adapterResult.value.totalClicks
          # TotalCostMicros(adapterResult.value)

----------------------------------------------------------------------------
(* Properties of the dispatcher over its adapter operations *)

\* the invocation has ended and its upstream call had been issued and answered
UpstreamAnswered == pc = "done" /\ answer # NoAnswer

OperationCalled == adapterCalls[1]

\* C23: an invocation of list_google_ads_accounts, or of get_account_info,
\* get_ad_spend or get_keyword_performance with a customerId, whose upstream
\* call was answered returns an envelope with success true, whether the
\* upstream call succeeded or failed; when it failed data is what the catch
\* block of the operation returns (the empty list, null, the sample data).
C23_UpstreamFailureNeverSurfaces ==
    UpstreamAnswered =>
        /\ outcome.kind = "return"
        /\ outcome.value.success
        /\ answer.kind = "failed" =>
              outcome.value.data
                  = CatchValue(OperationCalled, CustomerIdArg, DaysArg)

\* (C23, what does hold) the envelope has success true, with the catch
\* block's value as data after an upstream failure, unless the catch block of
\* the operation itself threw (its console.error failing): then the
\* dispatcher's catch block answers with the failure envelope, or throws when
\* its own console.error fails too.
C23_SurfacesWhenCatchThrows ==
    UpstreamAnswered =>
        IF TryBlockThrew(OperationCalled) /\ "adapter" \in sink
        THEN IF "outcome" \in sink
             THEN outcome = Thrown(SinkError)
             ELSE outcome = Returned(Failure(SinkError))
        ELSE /\ outcome.kind = "return"
             /\ outcome.value.success
             /\ answer.kind = "failed" =>
                   outcome.value.data
                       = CatchValue(OperationCalled, CustomerIdArg, DaysArg)

----------------------------------------------------------------------------
(* Properties of the registry against the switch of handleToolCall *)

UnknownTool(name) == Throw("Unknown tool: " \o name)

NamesDistinct(list) ==
    \A i, j \in 1..Len(list) : list[i].name = list[j].name => i = j

\* C24: whatever invocations have been made, getTools returns the four
\* descriptors the constructor built, their names pairwise distinct; the
\* switch of handleToolCall takes a name to the unknown-tool failure exactly
\* when getTools does not list it, and an invocation has called an adapter
\* operation only for a listed name.
C24_RegistryConsistent ==
    /\ getTools = ConstructorTools
    /\ Len(getTools) = 4
    /\ NamesDistinct(getTools)
    /\ \A name \in ToolNameInputs, a \in ArgsInputs :
          name \in RegisteredNames <=> Dispatch(name, a) # UnknownTool(name)
    /\ adapterCalls # <<>> => toolName \in RegisteredNames
    /\ pc = "done" /\ "entry" \notin sink /\ toolName \in RegisteredNames
          => \/ Len(adapterCalls) = 1
             \/ /\ Dispatch(toolName, args).next = "throw"
                /\ Dispatch(toolName, args) # UnknownTool(toolName)

\* C24 witness: after an invocation of the last listed tool, routed to its
\* operation, and one of an unlisted name
C24_Witness ==
    /\ pc = "done"
    /\ toolName = getTools[4].name
    /\ adapterCalls = <<"getKeywordPerformance">>
    /\ outcome.kind = "return" /\ outcome.value.success

C24_WitnessUnlisted ==
    /\ pc = "done"
    /\ toolName \notin RegisteredNames
    /\ adapterCalls = <<>>
    /\ outcome = Returned(Failure("Unknown tool: " \o toolName))

----------------------------------------------------------------------------
(* Properties of the handler of authMiddleware *)

Handled == hpc = "done"

Responded401 == reply.status = 401 /\ reply.error # ""

\* the request carries no token: no Authorization header, or the scheme
\* 'Bearer' with nothing after it
CarriesNoToken == ~authHeader.present \/ authHeader = Text(Bearer)

\* C25: the handler does exactly one of two things for a request: it calls
\* next (once), or it responds 401 with an error body, never both; and it
\* calls next only when the Authorization header is present, its scheme (the
\* text before the first space) is 'Bearer' and its token (the text between
\* the first space and the second) equals the configured token.
C25_NextOrUnauthorized ==
    Handled =>
        /\ nextCalls = 1 \/ Responded401
        /\ ~(nextCalls = 1 /\ reply # NoResponse)
        /\ nextCalls \in {0, 1}
        /\ nextCalls = 1 =>
              /\ authHeader.present
              /\ Len(authHeader.text) >= Len(Bearer)
              /\ SubSeq(authHeader.text, 1, Len(Bearer)) = Bearer
              /\ \/ /\ Len(authHeader.text) = Len(Bearer)
                    /\ ~authToken.present
                 \/ /\ Len(authHeader.text) > Len(Bearer)
                    /\ authHeader.text[Len(Bearer) + 1] = " "
                    /\ authToken.present
                    /\ LET rest == SubSeq(authHeader.text, Len(Bearer) + 2,
                                          Len(authHeader.text))
                           n == Len(authToken.text)
                       IN /\ Len(rest) >= n
                          /\ SubSeq(rest, 1, n) = authToken.text
                          /\ Len(rest) > n => rest[n + 1] = " "
                          /\ \A i \in 1..n : rest[i] # " "

\* C25 witnesses: a request let through, and requests refused at each test
C25_Witness ==
    /\ Handled
    /\ authToken = Text(<<"t", "1">>)
    /\ authHeader = Text(Bearer \o <<" ", "t", "1">>)
    /\ nextCalls = 1 /\ reply = NoResponse

C25_WitnessRefused ==
    /\ Handled
    /\ authToken = Text(<<"t", "1">>)
    /\ authHeader = Text(Bearer \o <<" ", "t", "2">>)
    /\ nextCalls = 0
    /\ reply = [status |-> 401, error |-> "Invalid authentication token"]

\* C26: the handler never calls next for a request that carries no token,
\* whatever the middleware was constructed with, undefined included.
C26_NoTokenNeverPasses ==
    Handled /\ CarriesNoToken => nextCalls = 0

\* (C26, what does hold) a request without an Authorization header is always
\* refused; the header 'Bearer' alone is let through exactly when the
\* middleware was constructed with undefined.
C26_PassesWhenUnconfigured ==
    Handled /\ CarriesNoToken =>
        IF authHeader.present /\ ~authToken.present
        THEN nextCalls = 1 /\ reply = NoResponse
        ELSE nextCalls = 0 /\ Responded401

----------------------------------------------------------------------------
(* Properties of getValidAccessToken *)

TokenCallEnded == opc = "done"

ValidToken(x) == x.t = "string" /\ x.v # ""

RefreshTokenConfigured == Truthy(oauthEnv.GOOGLE_REFRESH_TOKEN)
AccessTokenConfigured == Truthy(oauthEnv.GOOGLE_OAUTH_ACCESS_TOKEN)

\* the refresh yielded a token: the endpoint answered an object without an
\* error that carries a non-empty access_token
RefreshYieldedToken ==
    /\ refreshAnswer.kind = "object"
    /\ ~Truthy(refreshAnswer.error)
    /\ ValidToken(refreshAnswer.access_token)

\* C27: a getValidAccessToken call (its console.warn working) has thrown or
\* returned a non-empty access token: it has thrown without a refresh
\* request when the client id or secret is missing; with a refresh token
\* configured it has issued the refresh request and returned the refreshed
\* token when the refresh yielded one; when the refresh yielded none, or no
\* refresh token is configured, it has returned the configured access token
\* if there is one, and thrown otherwise.
C27_ThrowsOrValidToken ==
    TokenCallEnded /\ ~warnFails =>
        /\ \/ tokenResult.kind = "throw"
           \/ tokenResult.kind = "return" /\ ValidToken(tokenResult.value)
        /\ IF CredentialsMissing(oauthEnv)
           THEN tokenResult.kind = "throw" /\ refreshes = 0
           ELSE /\ refreshes = IF RefreshTokenConfigured THEN 1 ELSE 0
                /\ IF RefreshTokenConfigured /\ RefreshYieldedToken
                   THEN tokenResult = Returned(refreshAnswer.access_token)
                   ELSE IF AccessTokenConfigured
                        THEN tokenResult =
                                 Returned(oauthEnv.GOOGLE_OAUTH_ACCESS_TOKEN)
                        ELSE tokenResult.kind = "throw"

\* (C27, what does hold) the order of the sources is as stated, but the
\* refresh counts as successful whenever the endpoint's body parses to an
\* object without a truthy error member: the call then returns that object's
\* access_token, be it undefined or empty, without falling back to the
\* configured access token and without throwing.
C27_ReturnsWhateverRefreshGave ==
    TokenCallEnded /\ ~warnFails =>
        IF CredentialsMissing(oauthEnv)
        THEN tokenResult.kind = "throw" /\ refreshes = 0
        ELSE /\ refreshes = IF RefreshTokenConfigured THEN 1 ELSE 0
             /\ IF /\ RefreshTokenConfigured
                   /\ refreshAnswer.kind = "object"
                   /\ ~Truthy(refreshAnswer.error)
                THEN tokenResult = Returned(refreshAnswer.access_token)
                ELSE IF AccessTokenConfigured
                     THEN tokenResult =
                              Returned(oauthEnv.GOOGLE_OAUTH_ACCESS_TOKEN)
                     ELSE tokenResult.kind = "throw"

====
